---- MODULE Spec2Model ----
(***************************************************************************)
(* A model of the step execution core of craft-parts:                      *)
(*   craft_parts/executor/step_handler.py  (StepContents, StepHandler,     *)
(*                                          _create_and_run_script)        *)
(*   craft_parts/errors.py                 (PartsError and its kinds)      *)
(*                                                                         *)
(* Three specifications share the variables:                               *)
(*   Spec         one run of StepHandler.run_scriptlet with its control    *)
(*                channel server (accept / read callbacks, the control     *)
(*                API) and the scriptlet child that talks to it;           *)
(*   SpecBuiltin  the built-in actions run by StepHandler.run_builtin for  *)
(*                the five steps of one part, in pipeline order;           *)
(*   SpecDetails  the errors raised for a failed process, with the stderr  *)
(*                captured from it, and their `details` view.              *)
(*                                                                         *)
(* Python strings are sequences of tokens (a token is a character or a     *)
(* fixed piece of text), so that splitting, joining and formatting are     *)
(* computed and not assumed.                                               *)
(***************************************************************************)
EXTENDS Integers, Sequences, FiniteSets, TLC

\* ------------------------------------------------------------------ bounds

\* Control requests the scriptlet may send during one run.
MaxRequests == 2
\* Longest `partitions` list handed to a StepHandler.
MaxPartitions == 2
\* Most lines a failed process writes to its stderr.
MaxStderrLines == 4

\* --------------------------------------------------------------- constants

\* craft_parts.utils.partition_utils.DEFAULT_PARTITION
DEFAULT_PARTITION == "default"

Steps == {"PULL", "OVERLAY", "BUILD", "STAGE", "PRIME"}
StepOrder == <<"PULL", "OVERLAY", "BUILD", "STAGE", "PRIME">>

\* A `step` value that is none of the five members of Step.
OtherStep == "OTHER"

PartName == "foo"
PluginName == "make"
ScriptletName == "override-step"

\* A connection carries at least one request, so there are at most MaxRequests.
Conns == 1..MaxRequests

\* ----------------------------------------------------------------- strings

Range(s) == {s[i] : i \in DOMAIN s}

\* Python's None, where a string, a bytes object or a list may stand.
None == <<"None">>

\* Truth of a string or a list, as in `if self._partitions:` and
\* `if self.details:`: it is not None and not empty.
Truthy(s) == s # None /\ Len(s) > 0

\* repr() of a plain string: the string in single quotes.
Repr(s) == <<"'", s, "'">>

\* str.join: the components separated by sep.
RECURSIVE Join(_, _)
Join(components, sep) ==
    IF components = <<>> THEN <<>>
    ELSE IF Len(components) = 1 THEN Head(components)
    ELSE Head(components) \o <<sep>> \o Join(Tail(components), sep)

\* str.split(sep): the pieces between the occurrences of sep.
RECURSIVE Split(_, _)
Split(s, sep) ==
    IF \A i \in DOMAIN s : s[i] # sep THEN <<s>>
    ELSE LET i == CHOOSE j \in DOMAIN s :
                      s[j] = sep /\ \A k \in 1..(j-1) : s[k] # sep
         IN <<SubSeq(s, 1, i-1)>> \o Split(SubSeq(s, i+1, Len(s)), sep)

\* ------------------------------------------------------------------ errors

\* An exception: its class and, for a PartsError, brief, details, resolution;
\* for a UserExecutionError the stderr it was given.
NoError ==
    [cls |-> "none", brief |-> <<>>, details |-> None, resolution |-> None,
     stderr |-> None]

Exception(cls, message) ==
    [cls |-> cls, brief |-> message, details |-> None, resolution |-> None,
     stderr |-> None]

\* The classes of errors.py that derive from PartsError.
PartsErrorClasses ==
    {"PluginPullError", "PluginBuildError", "InvalidControlAPICall",
     "ScriptletRunError"}

IsPartsError(exc) == exc.cls \in PartsErrorClasses

PluginPullError(part_name) ==
    [cls |-> "PluginPullError",
     brief |-> <<"Failed to run the pull script for part ">> \o Repr(part_name)
               \o <<".">>,
     details |-> None, resolution |-> None, stderr |-> None]

\* The lines of stderr that are not empty.
StderrLines(stderr) ==
    LET NotEmpty(line) == line # <<>> IN SelectSeq(Split(stderr, "\n"), NotEmpty)

Reversed(s) == [i \in DOMAIN s |-> s[Len(s) + 1 - i]]

\* line.startswith("+")
IsTraceLine(line) == line # <<>> /\ line[1] = "+"

traced_lines_to_display == 3

\* The loop of UserExecutionError.details over the reversed lines, at index idx
\* with `count` trace lines seen: the anchor is minus the index of the first trace
\* line that makes the count exceed traced_lines_to_display, 0 if there is none.
RECURSIVE AnchorLine(_, _, _)
AnchorLine(reversed, idx, count) ==
    IF idx >= Len(reversed) THEN 0
    ELSE IF IsTraceLine(reversed[idx + 1])
    THEN IF count + 1 > traced_lines_to_display THEN 0 - idx
         ELSE AnchorLine(reversed, idx + 1, count + 1)
    ELSE AnchorLine(reversed, idx + 1, count)

\* stderr_lines[anchor_line:]
SliceFrom(lines, anchor_line) ==
    IF anchor_line >= 0 THEN SubSeq(lines, anchor_line + 1, Len(lines))
    ELSE SubSeq(lines, Len(lines) + anchor_line + 1, Len(lines))

\* Each line written as "\n:: <line>".
RECURSIVE WriteLines(_)
WriteLines(lines) ==
    IF lines = <<>> THEN <<>>
    ELSE <<"\n", ":: ">> \o Head(lines) \o WriteLines(Tail(lines))

\* UserExecutionError.details
Details(stderr) ==
    IF stderr = None THEN None
    ELSE LET stderr_lines == StderrLines(stderr)
         IN WriteLines(SliceFrom(stderr_lines,
                                 AnchorLine(Reversed(stderr_lines), 0, 0)))

PluginBuildError(part_name, plugin_name, stderr) ==
    [cls |-> "PluginBuildError",
     brief |-> <<"Failed to run the build script for part ">> \o Repr(part_name)
               \o <<".">>,
     details |-> Details(stderr),
     resolution |-> <<"Check the build output and verify the project can work with the ">>
                    \o Repr(plugin_name) \o <<" plugin.">>,
     stderr |-> stderr]

InvalidControlAPICall(part_name, scriptlet_name, message) ==
    [cls |-> "InvalidControlAPICall",
     brief |-> Repr(scriptlet_name) \o <<" in part ">> \o Repr(part_name)
               \o <<" executed an invalid control API call: ">> \o message
               \o <<".">>,
     details |-> None,
     resolution |-> <<"Review the scriptlet and make sure it's correct.">>,
     stderr |-> None]

ScriptletRunError(part_name, scriptlet_name, exit_code, stderr) ==
    [cls |-> "ScriptletRunError",
     brief |-> Repr(scriptlet_name) \o <<" in part ">> \o Repr(part_name)
               \o <<" failed with code ", ToString(exit_code), ".">>,
     details |-> Details(stderr),
     resolution |-> <<"Review the scriptlet and make sure it's correct.">>,
     stderr |-> stderr]

\* PartsError.__str__: brief, details and resolution (those present), one per line.
Str(exc) ==
    Join(<<exc.brief>>
         \o (IF Truthy(exc.details) THEN <<exc.details>> ELSE <<>>)
         \o (IF Truthy(exc.resolution) THEN <<exc.resolution>> ELSE <<>>),
         "\n")

\* ------------------------------------------------------------------- state

VARIABLES
    \* --- run_scriptlet and its control channel (Spec)
    pc,            \* position of run_scriptlet: init, env, script, pump, done
    step,          \* the `step` argument of run_scriptlet
    step_info_step, \* StepInfo.step of the handler run_scriptlet is called on
    scriptlet,     \* which scriptlet runs: the family of control calls it makes
    tempdir,       \* the TemporaryDirectory: none, exists, removed
    ctl_socket,    \* the listening socket: none, open, closed
    conn_state,    \* per connection: unconnected, pending, registered, closed
    inbox,         \* per connection: data sent by the scriptlet, not yet received
    replies,       \* per connection: what conn.send() wrote, in order
    nreq,          \* requests sent so far
    project_vars,  \* StepInfo's project variables: name -> value
    calls,         \* the set_project_var(name, value) calls made, in order
    child,         \* the scriptlet process: none, running, exit0, exit1
    outcome,       \* how run_scriptlet ended: NoError (returned) or the exception
    hframe,        \* the read callback in progress: [state, conn]
    events,        \* what the server did, in order: <<kind, conn>>
    handled,       \* per request received: [conn, msg, kind, exc, text, made]
    \* --- run_builtin over the steps of one part (SpecBuiltin)
    b_next,            \* index in StepOrder of the step to run next (6: none left)
    partitions,        \* the handler's `partitions`: None, or a list of names
    default_partition, \* StepInfo.default_partition
    stage_files,       \* part.spec.stage_files
    prime_files,       \* part.spec.prime_files
    pull_commands,     \* what plugin.get_pull_commands() returns
    build_commands,    \* what plugin.get_build_commands() returns
    source_handler,    \* whether a source handler is attached
    env,               \* the handler's `env` string
    scripts,           \* the script files written: path -> [text, mode]
    ops,               \* what was done outside the handler, in order
    stage_tree,        \* per partition: the files in its stage dir
    prime_tree,        \* per partition: the files in its prime dir
    backstage_tree,    \* the files in the backstage dir
    export_migrations, \* the partitions during whose turn the export dir was migrated
    prime_fileset,     \* the entries of the fileset PRIME resolved
    returned,          \* per step run: the StepContents its built-in returned
    b_outcome,         \* the exception that ended the pipeline, NoError if none
    \* --- the error of a failed process (SpecDetails)
    captured,          \* the stderr captured from the process (None: not captured)
    error              \* the error raised for the process, NoError if none yet

ctl_vars ==
    <<pc, step, step_info_step, scriptlet, tempdir, ctl_socket, conn_state, inbox, replies,
      nreq, project_vars, calls, child, outcome, hframe, events, handled>>

\* What the handler is constructed with.
part_vars ==
    <<partitions, default_partition, stage_files, prime_files, pull_commands,
      build_commands, source_handler, env>>

\* What the built-ins and the script runner leave behind.
disk_vars ==
    <<stage_tree, prime_tree, backstage_tree, export_migrations, prime_fileset,
      scripts, ops>>

\* The progress of run_builtin over the steps.
pipeline_vars == <<b_next, returned, b_outcome>>

builtin_vars == <<part_vars, disk_vars, pipeline_vars>>

details_vars == <<captured, error>>

vars == <<ctl_vars, builtin_vars, details_vars>>

\* ---------------------------------------------------------------- requests

\* conn.recv(1024): the most bytes one read of a connection returns.
RecvSize == 1024

\* The bytes of a request as craftctl writes it, far fewer than RecvSize.
ShortRequest == 64

\* Bytes on a connection: what a client sent in one piece, and what one
\* conn.recv(1024) returns.  enc: "eof" (zero bytes), "bad_utf8" (bytes that do not
\* decode), "utf8"; json: "invalid" (json.loads fails) or "object"; size: the
\* number of bytes; tail: how many of them are white space after the JSON text.
Data(enc, json, has_function, has_args, function, args) ==
    [enc |-> enc, json |-> json, has_function |-> has_function,
     has_args |-> has_args, function |-> function, args |-> args,
     size |-> IF enc = "eof" THEN 0 ELSE ShortRequest, tail |-> 0]

Eof == Data("eof", "none", FALSE, FALSE, "", <<>>)
BadUtf8 == Data("bad_utf8", "none", FALSE, FALSE, "", <<>>)
BadJson == Data("utf8", "invalid", FALSE, FALSE, "", <<>>)
MissingFunction == Data("utf8", "object", FALSE, TRUE, "", <<>>)
MissingArgs == Data("utf8", "object", TRUE, FALSE, "default", <<>>)
Call(function, args) == Data("utf8", "object", TRUE, TRUE, function, args)

\* The same request in `size` bytes, the last `tail` of them white space (the
\* JSON text is as long as that takes: a long value, white space between tokens).
Sized(data, size, tail) == [data EXCEPT !.size = size, !.tail = tail]

FirstBytesMutant(data, n) ==
    IF data.size - data.tail <= n
    THEN [data EXCEPT !.size = n, !.tail = n - (data.size - data.tail)]
    ELSE [data EXCEPT !.size = n, !.tail = 0,
                      !.args = [a \in DOMAIN data.args |->
                                   SubSeq(data.args[a], 1, Len(data.args[a]) - 1)]]

\* The first n bytes of data that is longer: the whole JSON text if only white
\* space is cut off, else a text that ends in the middle of the object, which
\* json.loads does not accept.
FirstBytes(data, n) ==
    IF data.enc # "utf8" THEN [data EXCEPT !.size = n, !.tail = 0]
    ELSE IF data.json = "object" /\ data.size - data.tail <= n
    THEN [data EXCEPT !.size = n, !.tail = n - (data.size - data.tail)]
    ELSE [BadJson EXCEPT !.size = n, !.tail = 0]

\* The bytes of data after the first n: white space only if the JSON text ended
\* within the first n, else the rest of the text; json.loads accepts neither.
RestBytes(data, n) ==
    IF data.enc # "utf8" THEN [data EXCEPT !.size = data.size - n, !.tail = 0]
    ELSE IF data.json = "object" /\ data.size - data.tail <= n
    THEN [BadJson EXCEPT !.size = data.size - n, !.tail = data.size - n]
    ELSE [BadJson EXCEPT !.size = data.size - n, !.tail = data.tail]

\* conn.recv(1024) on a connection with `buffer` sent to it (a sequence of
\* pieces, each sent once the one before was answered): what it may return, and
\* what it leaves to be read.  At most RecvSize bytes are returned, the rest of a
\* longer piece stays; white space left over from a piece is returned alone or,
\* if the client has sent its next request by then, together with that request.
Recv(buffer) ==
    LET head == Head(buffer) IN
    IF head.size > RecvSize
    THEN {[data |-> FirstBytes(head, RecvSize),
           rest |-> <<RestBytes(head, RecvSize)>> \o Tail(buffer)]}
    ELSE IF /\ head.enc = "utf8" /\ head.size > 0 /\ head.tail = head.size
            /\ Len(buffer) > 1 /\ buffer[2].enc # "eof"
            /\ head.size + buffer[2].size <= RecvSize
    THEN {[data |-> head, rest |-> Tail(buffer)],
          [data |-> [buffer[2] EXCEPT !.size = @ + head.size],
           rest |-> Tail(Tail(buffer))]}
    ELSE {[data |-> head, rest |-> Tail(buffer)]}

\* The scriptlets run.  Each makes control calls of one family, in any number and
\* order (within MaxRequests) and over any connections; every family has a
\* well-formed `get k`, so that a request after a failed one is always possible.
Scriptlets ==
    {"default", "default_args", "roundtrip", "separator", "collaborator",
     "misuse_set", "misuse_args", "misuse_other", "decode", "keys", "chunk"}

GetK == Call("get", << <<"k">> >>)

Requests(kind) ==
    IF kind = "default"
    THEN {Call("default", <<>>)}
    ELSE IF kind = "default_args"
    THEN {Call("default", <<>>), Call("default", << <<"k">> >>), GetK}
    ELSE IF kind = "roundtrip"
    THEN {Call("set", << <<"k", "=", "v">> >>), Call("set", << <<"k", "=">> >>), GetK}
    ELSE IF kind = "separator"
    THEN {Call("set", << <<"k", "=", "v">> >>),
          Call("set", << <<"k", "=", "v", "=", "v">> >>), GetK}
    ELSE IF kind = "collaborator"
    THEN {Call("set", << <<"u", "=", "v">> >>), Call("get", << <<"u">> >>), GetK}
    ELSE IF kind = "misuse_set"
    THEN {Call("set", <<>>), Call("set", << <<"k">> >>), GetK}
    ELSE IF kind = "misuse_args"
    THEN {Call("set", << <<"k", "=", "v">>, <<"k", "=", "v">> >>), GetK}
    ELSE IF kind = "misuse_other"
    THEN {Call("get", <<>>), Call("bogus", <<>>), GetK}
    ELSE IF kind = "decode"
    THEN {BadUtf8, BadJson, GetK}
    ELSE IF kind = "chunk"
    THEN {Sized(GetK, RecvSize, 0),
          Sized(Call("set", << <<"k", "=", "v">> >>), RecvSize + 1, 0),
          Sized(Call("set", << <<"k", "=", "v">> >>), RecvSize + 1, 1), GetK}
    ELSE {MissingFunction, MissingArgs, GetK}

\* The `step` values run_scriptlet is given.  Only a "default" call reads it
\* (_execute_builtin_handler), so the scriptlets without one are run for one step.
StepsOf(kind) ==
    IF kind = "default" THEN Steps \cup {OtherStep}
    ELSE IF kind = "default_args" THEN {"BUILD", "STAGE"}
    ELSE {"BUILD"}

\* StepInfo.step of the handler: the step the handler was made for.  The callers
\* pass it on as `step`; run_scriptlet itself takes any `step`, here also PULL
\* on a handler made for BUILD.
StepInfoStepsOf(kind, s) ==
    IF kind = "default" /\ s = "PULL" THEN {"PULL", "BUILD"}
    ELSE {s}

\* The requests one connection carries: one, or two in a row.
RequestSeqs(kind) ==
    {<<d>> : d \in Requests(kind)}
    \cup {<<d, e>> : d \in Requests(kind), e \in Requests(kind)}

\* The project variables the project declares; any other name is unknown.
DeclaredVars == { <<"k">> }

\* ------------------------------------------------ StepInfo (collaborator)

\* StepInfo.set_project_var(name, value): the outcomes the caller provides for, a
\* ValueError (here: an undeclared name), a RuntimeError (the variable may not be
\* set now), or the value stored.
SetProjectVar(store, name, value) ==
    IF name \notin DOMAIN store
    THEN {[exc |-> Exception("ValueError", <<"'">> \o name \o <<"' not in project variables">>),
           store |-> store]}
    ELSE {[exc |-> NoError, store |-> [store EXCEPT ![name] = value]],
          [exc |-> Exception("RuntimeError", <<"variable '">> \o name \o <<"' cannot be set">>),
           store |-> store]}

\* StepInfo.get_project_var(name, raw_read=True): the stored value, or a ValueError.
GetProjectVar(store, name) ==
    IF name \notin DOMAIN store
    THEN [exc |-> Exception("ValueError", <<"'">> \o name \o <<"' not in project variables">>),
          value |-> <<>>]
    ELSE [exc |-> NoError, value |-> store[name]]

\* ------------------------------------------------------------- control API

\* The result of handling one request: the exception raised (NoError if none), the
\* return value, the project variables and set_project_var calls afterwards.
Result(exc, retval, store, made) ==
    [exc |-> exc, retval |-> retval, store |-> store, made |-> made]

invalid_control_api_call(message) ==
    InvalidControlAPICall(PartName, ScriptletName, message)

\* `name, value = cmd_args[0].split("=")`: exactly two pieces, else ValueError.
UnpackNameValue(arg) ==
    LET pieces == Split(arg, "=")
    IN IF Len(pieces) = 2
       THEN [exc |-> NoError, name |-> pieces[1], value |-> pieces[2]]
       ELSE [exc |-> Exception("ValueError", <<"too many values to unpack (expected 2)">>),
             name |-> <<>>, value |-> <<>>]

ProcessSetMutant(cmd_args, store) ==
    IF Len(cmd_args) # 1
    THEN {Result(invalid_control_api_call(
                     <<"invalid arguments to command ", "'set'">>), <<>>, store, <<>>)}
    ELSE LET pieces == Split(cmd_args[1], "=")
             value == IF Len(pieces) > 1 THEN pieces[2] ELSE <<>>
         IN {Result(IF r.exc = NoError THEN NoError
                    ELSE invalid_control_api_call(r.exc.brief),
                    <<>>, r.store, << <<pieces[1], value>> >>)
             : r \in SetProjectVar(store, pieces[1], value)}

\* _process_api_commands for "set".
ProcessSet(cmd_args, store) ==
    IF Len(cmd_args) # 1
    THEN {Result(invalid_control_api_call(
                     <<"invalid arguments to command ", "'set'">>), <<>>, store, <<>>)}
    ELSE IF "=" \notin Range(cmd_args[1])
    THEN {Result(invalid_control_api_call(
                     <<"invalid arguments to command ", "'set'", " (want key=value)">>),
                 <<>>, store, <<>>)}
    ELSE LET nv == UnpackNameValue(cmd_args[1])
         IN IF nv.exc # NoError
            THEN {Result(nv.exc, <<>>, store, <<>>)}
            ELSE {Result(IF r.exc = NoError THEN NoError
                         ELSE invalid_control_api_call(r.exc.brief),
                         <<>>, r.store, << <<nv.name, nv.value>> >>)
                  : r \in SetProjectVar(store, nv.name, nv.value)}

ProcessGetMutant(cmd_args, store) ==
    IF Len(cmd_args) # 1
    THEN {Result(invalid_control_api_call(
                     <<"invalid number of arguments to command ", "'get'">>),
                 <<>>, store, <<>>)}
    ELSE LET r == GetProjectVar(store, cmd_args[1])
         IN {Result(r.exc, r.value, store, <<>>)}

\* _process_api_commands for "get".
ProcessGet(cmd_args, store) ==
    IF Len(cmd_args) # 1
    THEN {Result(invalid_control_api_call(
                     <<"invalid number of arguments to command ", "'get'">>),
                 <<>>, store, <<>>)}
    ELSE LET r == GetProjectVar(store, cmd_args[1])
         IN {Result(IF r.exc = NoError THEN NoError
                    ELSE invalid_control_api_call(r.exc.brief),
                    r.value, store, <<>>)}

\* _process_api_commands, but for the call of the built-in handler that a
\* "default" without arguments makes (see ReadDefault, BuiltinReturns).
ProcessApiCommands(cmd_name, cmd_args, store) ==
    IF cmd_name = "default"
    THEN {Result(invalid_control_api_call(
                     <<"invalid arguments to command ", "'default'">>), <<>>, store, <<>>)}
    ELSE IF cmd_name = "set" THEN ProcessSet(cmd_args, store)
    ELSE IF cmd_name = "get" THEN ProcessGet(cmd_args, store)
    ELSE {Result(invalid_control_api_call(<<"invalid command ", "'", cmd_name, "'">>),
                 <<>>, store, <<>>)}

\* json.loads fails: _handle_control_api raises a RuntimeError naming the scriptlet.
InvalidJsonError ==
    Exception("RuntimeError",
              <<ScriptletName, " scriptlet called a function with invalid json: ">>)

MissingAttributeErrorMutant(attr) ==
    invalid_control_api_call(<<"control call missing attribute ", attr>>)

\* A key is missing: _handle_control_api raises a RuntimeError naming the scriptlet.
MissingAttributeError(attr) ==
    Exception("RuntimeError",
              <<ScriptletName, " control call missing attribute ", attr>>)

\* data.decode("utf-8") fails in the read callback.
DecodeError ==
    Exception("UnicodeDecodeError", <<"'utf-8' codec can't decode">>)

IsDefaultCallMutant(data) ==
    /\ data.enc = "utf8" /\ data.json = "object"
    /\ data.has_function /\ data.has_args
    /\ data.function = "default"

\* Whether the request is a "default" call that reaches _execute_builtin_handler.
IsDefaultCall(data) ==
    /\ data.enc = "utf8" /\ data.json = "object"
    /\ data.has_function /\ data.has_args
    /\ data.function = "default" /\ Len(data.args) = 0

\* data.decode + _handle_control_api for every other request.
HandleControlApi(data, store) ==
    IF data.enc = "bad_utf8" THEN {Result(DecodeError, <<>>, store, <<>>)}
    ELSE IF data.json = "invalid" THEN {Result(InvalidJsonError, <<>>, store, <<>>)}
    ELSE IF ~data.has_function
    THEN {Result(MissingAttributeError("function"), <<>>, store, <<>>)}
    ELSE IF ~data.has_args
    THEN {Result(MissingAttributeError("args"), <<>>, store, <<>>)}
    ELSE ProcessApiCommands(data.function, data.args, store)

\* The reply of the read callback on success: "OK <retval>\n", or "OK\n".
OkReply(retval) ==
    IF retval # <<>> THEN <<"OK", " ">> \o retval \o <<"\n">> ELSE <<"OK", "\n">>

\* The reply of the read callback for a PartsError: "ERR <error>\n".
ErrReply(exc) == <<"ERR", " ">> \o Str(exc) \o <<"\n">>

ReraisedMutant(exc) == FALSE

\* `except errors.PluginBuildError: raise` in the read callback.
Reraised(exc) == exc.cls = "PluginBuildError"

DispositionMutant(exc) == IF Reraised(exc) THEN "raise" ELSE "reply"

DispositionFatalMutant(exc) == "raise"

\* What the read callback does with an exception of the handler: "raise" (the
\* exception leaves the callback) or "reply" (it is answered with ERR).
Disposition(exc) ==
    IF Reraised(exc) THEN "raise"
    ELSE IF IsPartsError(exc) THEN "reply"
    ELSE "raise"

\* ------------------------------------------------ directories and trees

PartitionNames == {"default", "kernel"}

\* `partition=None`, for the name of one partition
NoPartition == "None"

\* A relative path: <<directory, name, suffix>>.
Paths == { <<"lib", "a", ".pc">>, <<"lib", "l", ".pc">>, <<"bin", "tool", "">> }
ExportPaths == { <<"share", "x", "">> }
Parent(path) == <<path[1]>>

\* The directories of the part: per partition an install, a stage and a prime dir.
InstallDir(partition) == <<"install", partition>>
StageDir(partition) == <<"stage", partition>>

\* Part.part_install_dir and Part.stage_dir: the dirs of the default partition.
part_install_dir == InstallDir(DEFAULT_PARTITION)
stage_dir == StageDir(DEFAULT_PARTITION)

\* A file: regular or symlink, and the directories its content (for a symlink,
\* its target) refers to.
File(kind, refs) == [kind |-> kind, refs |-> refs]

\* What BUILD left in the install dir of a partition: a pkg-config file and a
\* tool that both name the install prefix, and a symlink to the pkg-config file.
InstallTree(partition) ==
    [p \in Paths |->
        IF p = <<"lib", "l", ".pc">>
        THEN File("symlink", {InstallDir(partition)})
        ELSE File("file", {InstallDir(partition)})]

ExportTree == [p \in ExportPaths |-> File("file", {})]

EmptyTree == [p \in {} |-> File("file", {})]

\* ---------------------------------------------------------------- filesets

Star == <<"*">>

\* A fileset entry: an include or an exclude ("-" prefix), bound to a partition
\* by a "(partition)/" prefix ("" when it has none).
Include(part, path) == [excl |-> FALSE, part |-> part, path |-> path]
Exclude(part, path) == [excl |-> TRUE, part |-> part, path |-> path]

Includes(entries) == LET T(e) == ~e.excl IN SelectSeq(entries, T)
Excludes(entries) == LET T(e) == e.excl IN SelectSeq(entries, T)

\* Fileset.combine(other): when this fileset's includes are empty or just "*",
\* it takes the other's entries; its own excludes are kept.
Combine(entries, other) ==
    IF Includes(entries) = <<>> \/ Includes(entries) = <<Include("", Star)>>
    THEN LET T(e) == e \notin Range(other)
         IN other \o SelectSeq(Excludes(entries), T)
    ELSE entries

\* A pattern matches a path: "*" matches all, a path itself, a directory what is
\* under it.
Matches(pattern, path) ==
    pattern = Star \/ pattern = path \/ pattern = Parent(path)

\* The partition an entry is routed to.
Routed(entry, default) == IF entry.part = "" THEN default ELSE entry.part

\* filesets.migratable_filesets(fileset, srcdir, default_partition, partition):
\* the files under srcdir that an include of the target partition matches and no
\* exclude of it does, and the directories above them.  No include at all means
\* "*"; without a target partition every entry applies.
MigratableFilesets(entries, tree, default, target) ==
    LET incs == IF Includes(entries) = <<>> THEN {Include("", Star)}
                ELSE Range(Includes(entries))
        mine(e) == target = NoPartition \/ Routed(e, default) = target
        files == {p \in DOMAIN tree :
                    /\ \E e \in incs : mine(e) /\ Matches(e.path, p)
                    /\ ~\E e \in Range(Excludes(entries)) :
                           mine(e) /\ Matches(e.path, p)}
    IN [files |-> files, dirs |-> {Parent(p) : p \in files}]

\* packages.fix_pkg_config(prefix_prepend, pkg_config_file, prefix_trim): the
\* prefix that names prefix_trim is rewritten to name prefix_prepend.
FixPkgConfig(prefix_prepend, file, prefix_trim) ==
    IF prefix_trim \in file.refs
    THEN File(file.kind, (file.refs \ {prefix_trim}) \cup {prefix_prepend})
    ELSE file

\* pkgconfig_fixup in _builtin_stage: symlinks and files without the .pc suffix
\* are left alone; the others are fixed with the part's stage and install dir.
PkgconfigFixup(path, file) ==
    IF file.kind = "symlink" THEN file
    ELSE IF path[3] # ".pc" THEN file
    ELSE FixPkgConfig(stage_dir, file, part_install_dir)

\* The `fixup_func` arguments given to migrate_files: pkgconfig_fixup, or none.
NoFixup == "None"
Fixup(fixup_func, path, file) ==
    IF fixup_func = "pkgconfig_fixup" THEN PkgconfigFixup(path, file) ELSE file

\* migrate_files(files, dirs, srcdir, destdir, fixup_func): the files are put in
\* destdir, each passed through the fix-up; the sets are returned as given.
MigrateFiles(files, src, dest, fixup_func) ==
    [p \in DOMAIN dest \cup (files \cap DOMAIN src) |->
        IF p \in files \cap DOMAIN src THEN Fixup(fixup_func, p, src[p])
        ELSE dest[p]]

\* ------------------------------------------------------------ StepContents

StepPartitionContents(files, dirs) ==
    [cls |-> "StepPartitionContents", files |-> files, dirs |-> dirs,
     backstage_files |-> {}, backstage_dirs |-> {}]

StagePartitionContents(files, dirs, backstage_files, backstage_dirs) ==
    [cls |-> "StagePartitionContents", files |-> files, dirs |-> dirs,
     backstage_files |-> backstage_files, backstage_dirs |-> backstage_dirs]

\* StepContents.__init__(partitions, stage): None and the empty list both mean
\* the default partition alone.
StepContents(parts, stage) ==
    LET keys == IF parts = None \/ Len(parts) = 0 THEN {DEFAULT_PARTITION}
                ELSE Range(parts)
    IN [k \in keys |->
          IF stage THEN StagePartitionContents({}, {}, {}, {})
          ELSE StepPartitionContents({}, {})]

\* step_contents.partitions_contents[partition] = value
SetItem(contents, key, value) ==
    [k \in DOMAIN contents \cup {key} |-> IF k = key THEN value ELSE contents[k]]

\* ---------------------------------------------------------------- built-ins

ManagesBackstageMutant(partition, default) == TRUE

\* `if partition == self._step_info.default_partition:` backstage content is
\* managed only in the default partition.
ManagesBackstage(partition, default) == partition = default

TargetPartitionMutant(partition) == NoPartition

\* The `partition` argument of filesets.migratable_filesets in the loops over
\* self._partitions: the partition of the turn is the target partition.
TargetPartition(partition) == partition

\* The loop of _builtin_stage over self._partitions, from its i-th element.  acc
\* holds the stage trees, the backstage tree, the backstage sets last assigned,
\* the step contents and the turns in which the export dir was migrated.
RECURSIVE StageLoop(_, _, _, _, _)
StageLoop(i, parts, default, files_spec, acc) ==
    IF i > Len(parts) THEN acc
    ELSE
    LET partition == parts[i]
        resolved == MigratableFilesets(files_spec, InstallTree(partition),
                                       default, TargetPartition(partition))
        staged == MigrateFiles(resolved.files, InstallTree(partition),
                               acc.stage[partition], "pkgconfig_fixup")
        stage2 == [acc.stage EXCEPT ![partition] = staged]
    IN IF ManagesBackstage(partition, default)
       THEN StageLoop(i + 1, parts, default, files_spec,
                [stage |-> stage2,
                 backstage |-> MigrateFiles(acc.bfiles, ExportTree, acc.backstage,
                                            NoFixup),
                 bfiles |-> acc.bfiles, bdirs |-> acc.bdirs,
                 migrations |-> Append(acc.migrations, partition),
                 contents |-> SetItem(acc.contents, partition,
                                 StagePartitionContents(resolved.files, resolved.dirs,
                                                        acc.bfiles, acc.bdirs))])
       ELSE StageLoop(i + 1, parts, default, files_spec,
                [stage |-> stage2,
                 backstage |-> acc.backstage,
                 bfiles |-> acc.bfiles, bdirs |-> acc.bdirs,
                 migrations |-> acc.migrations,
                 contents |-> SetItem(acc.contents, partition,
                                 StagePartitionContents(resolved.files, resolved.dirs,
                                                        {}, {}))])

\* _builtin_stage: what it leaves in the trees and what it returns.
BuiltinStageResult(parts, default, files_spec, stage0, backstage0) ==
    IF Truthy(parts)
    THEN LET b == MigratableFilesets(<<Include(default, Star)>>, ExportTree,
                                     default, default)
         IN StageLoop(1, parts, default, files_spec,
                [stage |-> stage0, backstage |-> backstage0,
                 bfiles |-> b.files, bdirs |-> b.dirs, migrations |-> <<>>,
                 contents |-> StepContents(None, TRUE)])
    ELSE LET r == MigratableFilesets(files_spec, InstallTree(DEFAULT_PARTITION),
                                     DEFAULT_PARTITION, NoPartition)
             b == MigratableFilesets(<<Include("", Star)>>, ExportTree,
                                     DEFAULT_PARTITION, NoPartition)
         IN [stage |-> [stage0 EXCEPT ![DEFAULT_PARTITION] =
                          MigrateFiles(r.files, InstallTree(DEFAULT_PARTITION), @,
                                       "pkgconfig_fixup")],
             backstage |-> MigrateFiles(b.files, ExportTree, backstage0, NoFixup),
             bfiles |-> b.files, bdirs |-> b.dirs,
             migrations |-> <<DEFAULT_PARTITION>>,
             contents |-> SetItem(StepContents(None, TRUE), DEFAULT_PARTITION,
                             StagePartitionContents(r.files, r.dirs, b.files, b.dirs))]

PrimeCombinesMutant(entries) == entries = <<Include("", Star)>>

\* `if prime_fileset.entries == ["*"] or len(prime_fileset.includes) == 0:`
PrimeCombines(entries) ==
    entries = <<Include("", Star)>> \/ Len(Includes(entries)) = 0

\* The fileset _builtin_prime resolves.
PrimeFileset(prime_spec, stage_spec) ==
    IF PrimeCombines(prime_spec) THEN Combine(prime_spec, stage_spec) ELSE prime_spec

\* The loop of _builtin_prime over self._partitions, from its i-th element.
RECURSIVE PrimeLoop(_, _, _, _, _, _)
PrimeLoop(i, parts, default, fileset, staged, acc) ==
    IF i > Len(parts) THEN acc
    ELSE
    LET partition == parts[i]
        resolved == MigratableFilesets(fileset, InstallTree(partition),
                                       default, TargetPartition(partition))
    IN PrimeLoop(i + 1, parts, default, fileset, staged,
          [prime |-> [acc.prime EXCEPT ![partition] =
                        MigrateFiles(resolved.files, staged[partition], @, NoFixup)],
           contents |-> SetItem(acc.contents, partition,
                           StepPartitionContents(resolved.files, resolved.dirs))])

\* _builtin_prime: what it leaves in the prime trees and what it returns.
BuiltinPrimeResult(parts, default, fileset, staged, prime0) ==
    IF Truthy(parts)
    THEN PrimeLoop(1, parts, default, fileset, staged,
            [prime |-> prime0, contents |-> StepContents(None, FALSE)])
    ELSE LET r == MigratableFilesets(fileset, InstallTree(DEFAULT_PARTITION),
                                     DEFAULT_PARTITION, NoPartition)
         IN [prime |-> [prime0 EXCEPT ![DEFAULT_PARTITION] =
                          MigrateFiles(r.files, staged[DEFAULT_PARTITION], @, NoFixup)],
             contents |-> SetItem(StepContents(None, FALSE), DEFAULT_PARTITION,
                             StepPartitionContents(r.files, r.dirs))]

\* ------------------------------------------------------ scripts and processes

\* The files written: pull.sh, build.sh and environment.sh in the part's run dir,
\* scriptlet.sh and scriptlet_environment.sh in the temporary directory.
PullScript == <<"<part_run_dir>", "/", "pull.sh">>
BuildScript == <<"<part_run_dir>", "/", "build.sh">>
BuildEnvironmentScript == <<"<part_run_dir>", "/", "environment.sh">>
ScriptletScript == <<"<tempdir>", "/", "scriptlet.sh">>
ScriptletEnvironmentScript == <<"<tempdir>", "/", "scriptlet_environment.sh">>
ctl_socket_path == <<"<tempdir>", "/", "craftctl.socket">>

NoFiles == [p \in {} |-> [text |-> <<>>, mode |-> ""]]

\* Path.write_text(text) and open("w"): the file holds the text; a new file gets
\* the mode the umask leaves, an existing one keeps its mode.
WriteText(fs, path, text) ==
    [p \in DOMAIN fs \cup {path} |->
        IF p = path
        THEN [text |-> text,
              mode |-> IF path \in DOMAIN fs THEN fs[path].mode ELSE "umask"]
        ELSE fs[p]]

\* Path.chmod(mode)
Chmod(fs, path, mode) == [fs EXCEPT ![path].mode = mode]

\* One operation on the outside world, as logged in `ops`: "source_pull",
\* "write" and "chmod" (arg: the mode) of a file, "run" of a script (arg: the
\* selector given to process.run) in directory cwd, "exit" of its process (arg:
\* the exit code) with the stderr captured.
Op(op, path, arg, cwd, stderr) ==
    [op |-> op, path |-> path, arg |-> arg, cwd |-> cwd, stderr |-> stderr]

\* print(line, file=run_file)
Emit(line) == line \o <<"\n">>

RECURSIVE EmitAll(_)
EmitAll(commands) ==
    IF commands = <<>> THEN <<>>
    ELSE Emit(Head(commands)) \o EmitAll(Tail(commands))

ScriptTextMutant(commands, environment_script_path) ==
    Emit(<<"#!/bin/bash">>) \o Emit(<<"set -euo pipefail">>)
    \o Emit(<<"set -x">>)
    \o (IF environment_script_path # None
        THEN Emit(<<"source ">> \o environment_script_path) ELSE <<>>)
    \o EmitAll(commands)

\* The text _create_and_run_script writes to the script file.
ScriptText(commands, environment_script_path) ==
    Emit(<<"#!/bin/bash">>) \o Emit(<<"set -euo pipefail">>)
    \o (IF environment_script_path # None
        THEN Emit(<<"source ">> \o environment_script_path) ELSE <<>>)
    \o Emit(<<"set -x">>)
    \o EmitAll(commands)

\* _create_and_run_script up to the start of the process: the script is written
\* and closed, made 0o755, and process.run starts it.
CreateScript(commands, script_path, cwd, environment_script_path, selector, fs, log) ==
    [files |-> Chmod(WriteText(fs, script_path,
                               ScriptText(commands, environment_script_path)),
                     script_path, "0o755"),
     ops |-> log \o <<Op("write", script_path, "", "", None),
                      Op("chmod", script_path, "0o755", "", None),
                      Op("run", script_path, selector, cwd, None)>>]

\* What process.run returns: the exit code and the stderr captured, None when the
\* stream is not captured.
ProcessStderrs ==
    {None, <<"+", " make", "\n", "make: *** Error 1", "\n">>}

ProcessResults ==
    {[returncode |-> 0, stderr |-> None]}
    \cup {[returncode |-> 1, stderr |-> e] : e \in ProcessStderrs}

\* _create_and_run_script with a process that ends with `result`: check=True
\* makes process.run raise ProcessError for a non-zero exit code.
CreateAndRunScript(commands, script_path, cwd, environment_script_path, selector, fs, log, result) ==
    LET s == CreateScript(commands, script_path, cwd, environment_script_path,
                          selector, fs, log)
    IN [files |-> s.files,
        ops |-> Append(s.ops, Op("exit", script_path, ToString(result.returncode),
                                 "", result.stderr)),
        process_error |-> result.returncode # 0, result |-> result]

\* The selector the built-ins hand to _create_and_run_script for pull.sh and
\* build.sh: none, so no control request is served while a built-in runs.
BuiltinSelectorMutant == "ctl"
BuiltinSelector == "none"

NoContents == [k \in {} |-> StepPartitionContents({}, {})]

\* What a built-in did: the exception it raised (NoError if it returned), the
\* StepContents it returned, and what it left on disk.
Effect(exc, contents, fs, log) ==
    [exc |-> exc, contents |-> contents, files |-> fs, ops |-> log,
     stage |-> stage_tree, prime |-> prime_tree, backstage |-> backstage_tree,
     migrations |-> export_migrations, fileset |-> prime_fileset]

PullRunsScriptMutant(commands) == TRUE

\* `if pull_commands:`
PullRunsScript(commands) == Truthy(commands)

\* _builtin_pull.  src_ok: whether the source handler's pull() returns.
BuiltinPullResult(src_ok, result) ==
    LET log == IF source_handler
               THEN Append(ops, Op("source_pull", <<>>, "", "", None)) ELSE ops
    IN IF source_handler /\ ~src_ok
       THEN Effect(Exception("PullError", <<"Failed to pull source">>),
                   NoContents, scripts, log)
       ELSE IF PullRunsScript(pull_commands)
       THEN LET r == CreateAndRunScript(pull_commands, PullScript,
                                        "<part_src_subdir>", None,
                                        BuiltinSelector, scripts, log, result)
            IN IF r.process_error
               THEN Effect(PluginPullError(PartName), NoContents, r.files, r.ops)
               ELSE Effect(NoError, StepContents(None, FALSE), r.files, r.ops)
       ELSE Effect(NoError, StepContents(None, FALSE), scripts, log)

\* _builtin_overlay
BuiltinOverlayResult == Effect(NoError, StepContents(None, FALSE), scripts, ops)

BuildEnvironmentMutant(text) == <<>>

\* build_environment_script_path.write_text(self._env)
BuildEnvironment(text) == text

\* _builtin_build
BuiltinBuildResult(result) ==
    LET fs == Chmod(WriteText(scripts, BuildEnvironmentScript, BuildEnvironment(env)),
                    BuildEnvironmentScript, "0o644")
        log == ops \o <<Op("write", BuildEnvironmentScript, "", "", None),
                        Op("chmod", BuildEnvironmentScript, "0o644", "", None)>>
        r == CreateAndRunScript(build_commands, BuildScript, "<part_build_subdir>",
                                BuildEnvironmentScript, BuiltinSelector, fs, log,
                                result)
    IN IF r.process_error
       THEN Effect(PluginBuildError(PartName, PluginName, r.result.stderr),
                   NoContents, r.files, r.ops)
       ELSE Effect(NoError, StepContents(None, FALSE), r.files, r.ops)

\* _builtin_stage
BuiltinStageEffect ==
    LET r == BuiltinStageResult(partitions, default_partition, stage_files,
                                stage_tree, backstage_tree)
    IN [Effect(NoError, r.contents, scripts, ops)
          EXCEPT !.stage = r.stage, !.backstage = r.backstage,
                 !.migrations = r.migrations]

\* _builtin_prime
BuiltinPrimeEffect ==
    LET fileset == PrimeFileset(prime_files, stage_files)
        r == BuiltinPrimeResult(partitions, default_partition, fileset,
                                stage_tree, prime_tree)
    IN [Effect(NoError, r.contents, scripts, ops)
          EXCEPT !.prime = r.prime, !.fileset = fileset]

\* _execute_builtin_handler(step): the built-in of the step is run, its return
\* value dropped.
ExecuteBuiltinHandler(s, src_ok, result) ==
    IF s = "PULL" THEN BuiltinPullResult(src_ok, result)
    ELSE IF s = "OVERLAY" THEN BuiltinOverlayResult
    ELSE IF s = "BUILD" THEN BuiltinBuildResult(result)
    ELSE IF s = "STAGE" THEN BuiltinStageEffect
    ELSE IF s = "PRIME" THEN BuiltinPrimeEffect
    ELSE Effect(NoError, NoContents, scripts, ops)

\* The built-in leaves its effect on disk.
Leaves(r) ==
    /\ scripts' = r.files
    /\ ops' = r.ops
    /\ stage_tree' = r.stage
    /\ prime_tree' = r.prime
    /\ backstage_tree' = r.backstage
    /\ export_migrations' = r.migrations
    /\ prime_fileset' = r.fileset

\* ------------------------------------------------------- run_scriptlet

Append2(s, a, b) == Append(Append(s, a), b)

\* The record of one request: what was received on which connection, whether the
\* callback answered ("reply") or let an exception out ("raise"), the exception of
\* the handler (NoError if none), the reply text, the set_project_var calls made.
Handled(c, data, kind, exc, text, made) ==
    [conn |-> c, msg |-> data, kind |-> kind, exc |-> exc, text |-> text,
     made |-> made]

InitCtl ==
    /\ pc = "init"
    /\ scriptlet \in Scriptlets
    /\ step \in StepsOf(scriptlet)
    /\ step_info_step \in StepInfoStepsOf(scriptlet, step)
    /\ tempdir = "none"
    /\ ctl_socket = "none"
    /\ conn_state = [c \in Conns |-> "unconnected"]
    /\ inbox = [c \in Conns |-> <<>>]
    /\ replies = [c \in Conns |-> <<>>]
    /\ nreq = 0
    /\ project_vars = [n \in DeclaredVars |-> <<>>]
    /\ calls = <<>>
    /\ child = "none"
    /\ outcome = NoError
    /\ hframe = [state |-> "idle", conn |-> 0, msg |-> Eof]
    /\ events = <<>>
    /\ handled = <<>>

\* run_scriptlet, up to the selector: the temporary directory is created, the
\* socket is bound in it and listens, the selector registers it for accept.
RunScriptletEnter ==
    /\ UNCHANGED <<builtin_vars, details_vars>>
    /\ pc = "init"
    /\ pc' = "env"
    /\ tempdir' = "exists"
    /\ ctl_socket' = "open"
    /\ UNCHANGED <<step, step_info_step, scriptlet, conn_state, inbox, replies, nreq,
                   project_vars, calls, child, outcome, hframe, events, handled>>

\* scriptlet_environment.sh is written and made 0o644.  The write is outside the
\* try block: if it fails, only the `with` block's exit runs (the directory is
\* removed) and the OSError leaves run_scriptlet.
ScriptletEnvironmentMutant(text) ==
    <<"export PARTS_CTL_SOCKET=">> \o ctl_socket_path \o <<"\n">>

\* environment = f"export PARTS_CTL_SOCKET={ctl_socket_path}\n" + self._env
ScriptletEnvironment(text) ==
    <<"export PARTS_CTL_SOCKET=">> \o ctl_socket_path \o <<"\n">> \o text

\* The text of the scriptlet run: one string, of more than one line.
ScriptletText(kind) == <<"set -e", "\n", "craftctl ", kind>>

WriteEnvironment ==
    /\ UNCHANGED <<details_vars, part_vars, pipeline_vars, stage_tree, prime_tree,
                   backstage_tree, export_migrations, prime_fileset>>
    /\ pc = "env"
    /\ \E ok \in BOOLEAN :
          IF ok
          THEN /\ pc' = "script"
               /\ scripts' = Chmod(WriteText(scripts, ScriptletEnvironmentScript,
                                           ScriptletEnvironment(env)),
                                 ScriptletEnvironmentScript, "0o644")
               /\ ops' = ops \o <<Op("write", ScriptletEnvironmentScript, "", "", None),
                                   Op("chmod", ScriptletEnvironmentScript, "0o644", "", None)>>
               /\ UNCHANGED <<tempdir, outcome>>
          ELSE /\ pc' = "done"
               /\ tempdir' = "removed"
               /\ outcome' = Exception("OSError", <<"write_text failed">>)
               /\ UNCHANGED <<scripts, ops>>
    /\ UNCHANGED <<step, step_info_step, scriptlet, ctl_socket, conn_state, inbox, replies, nreq,
                   project_vars, calls, child, hframe, events, handled>>

\* _create_and_run_script writes scriptlet.sh and process.run starts the child;
\* from here process.run pumps the selector until the child has exited.
StartScript ==
    /\ UNCHANGED <<details_vars, part_vars, pipeline_vars, stage_tree, prime_tree,
                   backstage_tree, export_migrations, prime_fileset>>
    /\ pc = "script"
    /\ pc' = "pump"
    /\ child' = "running"
    /\ LET s == CreateScript(<<ScriptletText(scriptlet)>>, ScriptletScript,
                             "<work_dir>", ScriptletEnvironmentScript, "ctl",
                             scripts, ops)
       IN scripts' = s.files /\ ops' = s.ops
    /\ UNCHANGED <<step, step_info_step, scriptlet, tempdir, ctl_socket, conn_state, inbox,
                   replies, nreq, project_vars, calls, outcome, hframe, events,
                   handled>>

\* An exception leaves the read callback: it passes through process.run, is not a
\* ProcessError, so only `finally: ctl_socket.close()` and the exit of the `with`
\* block run, and it leaves run_scriptlet.
Unwind(exc) ==
    /\ pc' = "done"
    /\ outcome' = exc
    /\ ctl_socket' = "closed"
    /\ tempdir' = "removed"

\* The selector calls a callback: process.run pumps it while the child runs, and no
\* callback is active (one thread; a callback runs to completion before the next
\* select).
ServerReady ==
    /\ pc = "pump"
    /\ child = "running"
    /\ \/ hframe.state = "idle"
       \/ hframe.state = "builtin" /\ BuiltinSelector = "ctl"

\* --- the scriptlet (the child process and the craftctl clients it starts)

\* A craftctl client connects, sends its requests (each is sent when the one
\* before has been answered, so each recv returns one of them) and closes its end
\* once it has the last answer.  Connections are numbered in the order they are made.
ClientConnect(c, datas) ==
    /\ UNCHANGED <<builtin_vars, details_vars>>
    /\ child = "running"
    /\ pc = "pump"
    /\ conn_state[c] = "unconnected"
    /\ \A b \in Conns : b < c => conn_state[b] # "unconnected"
    /\ nreq + Len(datas) <= MaxRequests
    /\ nreq' = nreq + Len(datas)
    /\ conn_state' = [conn_state EXCEPT ![c] = "pending"]
    /\ inbox' = [inbox EXCEPT ![c] = Append(datas, Eof)]
    /\ UNCHANGED <<pc, step, step_info_step, scriptlet, tempdir, ctl_socket, replies, project_vars, calls,
                   child, outcome, hframe, events, handled, scriptlet>>

\* The exit codes of the scriptlet's child, and the state of an exited child.
ExitStates == <<"exit0", "exit1", "exit2">>
ExitCodes == {n - 1 : n \in DOMAIN ExitStates}

\* The codes a scriptlet exits with: 0 or 1, and for one scriptlet also 2.
ExitCodesOf(kind) == IF kind = "keys" THEN ExitCodes ELSE {0, 1}

\* The child process exits with the code.
ChildExit(code) ==
    /\ UNCHANGED <<builtin_vars, details_vars>>
    /\ code \in ExitCodesOf(scriptlet)
    /\ child = "running"
    /\ pc = "pump"
    /\ child' = ExitStates[code + 1]
    /\ UNCHANGED <<pc, step, step_info_step, scriptlet, tempdir, ctl_socket, conn_state, inbox,
                   replies, nreq, project_vars, calls, outcome, hframe, events,
                   handled>>

\* --- the server callbacks

\* accept: the new connection is registered for read.
Accept(c) ==
    /\ UNCHANGED <<builtin_vars, details_vars>>
    /\ ServerReady
    /\ conn_state[c] = "pending"
    /\ conn_state' = [conn_state EXCEPT ![c] = "registered"]
    /\ UNCHANGED <<pc, step, step_info_step, scriptlet, tempdir, ctl_socket, inbox, replies, nreq,
                   project_vars, calls, child, outcome, hframe, events, handled>>

\* read, zero bytes received: the connection is unregistered and closed.
ReadEof(c) ==
    /\ UNCHANGED <<builtin_vars, details_vars>>
    /\ ServerReady
    /\ conn_state[c] = "registered"
    /\ inbox[c] # <<>>
    /\ \E rc \in Recv(inbox[c]) :
          /\ rc.data = Eof
          /\ inbox' = [inbox EXCEPT ![c] = rc.rest]
    /\ conn_state' = [conn_state EXCEPT ![c] = "closed"]
    /\ UNCHANGED <<pc, step, step_info_step, scriptlet, tempdir, ctl_socket, replies, nreq,
                   project_vars, calls, child, outcome, hframe, events, handled>>

\* read, a request other than a "default" call without arguments: it is decoded,
\* parsed and executed; the result is answered OK, a PartsError is answered ERR,
\* any other exception (and a PluginBuildError) leaves the callback.
ReadRequest(c) ==
    /\ UNCHANGED <<builtin_vars, details_vars>>
    /\ ServerReady
    /\ conn_state[c] = "registered"
    /\ inbox[c] # <<>>
    /\ \E rc \in Recv(inbox[c]) : LET data == rc.data IN
       /\ data # Eof
       /\ ~IsDefaultCall(data)
       /\ inbox' = [inbox EXCEPT ![c] = rc.rest]
       /\ \E r \in HandleControlApi(data, project_vars) :
             /\ project_vars' = r.store
             /\ calls' = calls \o r.made
             /\ IF r.exc = NoError
                THEN /\ replies' = [replies EXCEPT ![c] = Append(@, OkReply(r.retval))]
                     /\ events' = Append2(events, <<"recv", c>>, <<"send", c>>)
                     /\ handled' = Append(handled,
                                     Handled(c, data, "reply", NoError, OkReply(r.retval), r.made))
                     /\ UNCHANGED <<pc, outcome, ctl_socket, tempdir>>
                ELSE IF Disposition(r.exc) = "reply"
                THEN /\ replies' = [replies EXCEPT ![c] = Append(@, ErrReply(r.exc))]
                     /\ events' = Append2(events, <<"recv", c>>, <<"send", c>>)
                     /\ handled' = Append(handled,
                                     Handled(c, data, "reply", r.exc, ErrReply(r.exc), r.made))
                     /\ UNCHANGED <<pc, outcome, ctl_socket, tempdir>>
                ELSE /\ events' = Append2(events, <<"recv", c>>, <<"raise", c>>)
                     /\ handled' = Append(handled,
                                     Handled(c, data, "raise", r.exc, <<>>, r.made))
                     /\ Unwind(r.exc)
                     /\ UNCHANGED replies
    /\ UNCHANGED <<step, step_info_step, scriptlet, conn_state, nreq, child, hframe>>

\* read, a "default" call without arguments: _process_api_commands calls
\* _execute_builtin_handler(step), which starts the step's built-in.
ReadDefault(c) ==
    /\ UNCHANGED <<builtin_vars, details_vars>>
    /\ ServerReady
    /\ conn_state[c] = "registered"
    /\ inbox[c] # <<>>
    /\ \E rc \in Recv(inbox[c]) :
          /\ IsDefaultCall(rc.data)
          /\ inbox' = [inbox EXCEPT ![c] = rc.rest]
          /\ hframe' = [state |-> "builtin", conn |-> c, msg |-> rc.data]
    /\ events' = Append2(events, <<"recv", c>>, <<"builtin_start", c>>)
    /\ UNCHANGED <<pc, step, step_info_step, scriptlet, tempdir, ctl_socket, conn_state, replies,
                   nreq, project_vars, calls, child, outcome, handled>>

\* The built-in started by "default" ends: the callback answers OK after it has
\* returned, answers ERR for a PartsError, and lets a PluginBuildError through.
BuiltinReturns ==
    /\ UNCHANGED <<details_vars, part_vars, pipeline_vars>>
    /\ pc = "pump"
    /\ hframe.state = "builtin"
    /\ hframe' = [state |-> "idle", conn |-> 0, msg |-> Eof]
    /\ \E result \in ProcessResults :
          LET c == hframe.conn
              data == hframe.msg
              r == ExecuteBuiltinHandler(step, TRUE, result)
              exc == r.exc
          IN /\ Leaves(r)
             /\ IF exc = NoError
                THEN /\ replies' = [replies EXCEPT ![c] = Append(@, OkReply(<<>>))]
                     /\ events' = Append2(events, <<"builtin_return", c>>, <<"send", c>>)
                     /\ handled' = Append(handled,
                                     Handled(c, data, "reply", NoError, OkReply(<<>>), <<>>))
                     /\ UNCHANGED <<pc, outcome, ctl_socket, tempdir>>
                ELSE IF Disposition(exc) = "reply"
                THEN /\ replies' = [replies EXCEPT ![c] = Append(@, ErrReply(exc))]
                     /\ events' = Append2(events, <<"builtin_raise", c>>, <<"send", c>>)
                     /\ handled' = Append(handled,
                                     Handled(c, data, "reply", exc, ErrReply(exc), <<>>))
                     /\ UNCHANGED <<pc, outcome, ctl_socket, tempdir>>
                ELSE /\ events' = Append2(events, <<"builtin_raise", c>>, <<"raise", c>>)
                     /\ handled' = Append(handled,
                                     Handled(c, data, "raise", exc, <<>>, <<>>))
                     /\ Unwind(exc)
                     /\ UNCHANGED replies
    /\ UNCHANGED <<step, step_info_step, scriptlet, conn_state, inbox, nreq, project_vars, calls,
                   child>>

\* process.run sees that the child has exited: exit code 0 returns, any other
\* raises ProcessError, which run_scriptlet turns into ScriptletRunError; the
\* socket is closed by `finally`, the directory removed by the `with` block.
RunReturns ==
    /\ UNCHANGED <<details_vars, part_vars, pipeline_vars, stage_tree, prime_tree,
                   backstage_tree, export_migrations, prime_fileset, scripts>>
    /\ pc = "pump"
    /\ hframe.state = "idle"
    /\ child \in Range(ExitStates)
    /\ pc' = "done"
    /\ \E stderr \in ProcessStderrs :
          LET returncode == CHOOSE code \in ExitCodes : ExitStates[code + 1] = child
          IN /\ ops' = Append(ops, Op("exit", ScriptletScript,
                                      ToString(returncode), "", stderr))
             /\ outcome' = (IF returncode = 0 THEN NoError
                            ELSE ScriptletRunError(PartName, ScriptletName,
                                                   returncode, stderr))
    /\ ctl_socket' = "closed"
    /\ tempdir' = "removed"
    /\ UNCHANGED <<step, step_info_step, scriptlet, conn_state, inbox, replies, nreq,
                   project_vars, calls, child, hframe, events, handled>>

\* ------------------------------------------------------------- run_builtin

\* The `partitions` arguments: None, the empty list, and lists of partition names.
RECURSIVE ListsUpTo(_)
ListsUpTo(n) ==
    IF n = 0 THEN {<<>>}
    ELSE ListsUpTo(n - 1)
         \cup {Append(l, x) : l \in {m \in ListsUpTo(n - 1) : Len(m) = n - 1},
                              x \in PartitionNames}

PartitionArgs == {None} \cup ListsUpTo(MaxPartitions)

tool == <<"bin", "tool", "">>
a_pc == <<"lib", "a", ".pc">>
l_pc == <<"lib", "l", ".pc">>

\* The commands of the plugin, and the `env` strings given to the handler.
PullCommandsOptions == {<<>>, << <<"make", " pull">> >>}
BuildCommandsOptions == {<<>>, << <<"make">>, <<"make", " install">> >>}
EnvOptions == {<<>>, <<"export A=1", "\n">>}

\* The stage and prime keys of the part specs run.
StageFilesOptions ==
    { <<>>,
      <<Include("", Star), Include("kernel", Star)>>,
      <<Include("", tool), Include("kernel", a_pc)>>,
      <<Include("", Star), Exclude("", <<"lib">>)>> }

PrimeFilesOptions ==
    { <<>>,
      <<Include("", Star)>>,
      <<Exclude("", l_pc)>>,
      <<Exclude("kernel", a_pc), Exclude("", tool)>>,
      <<Include("", tool)>>,
      <<Include("", Star), Exclude("", tool)>> }

InitBuiltin ==
    /\ b_next = 1
    /\ partitions \in PartitionArgs
    /\ default_partition \in (IF Truthy(partitions) THEN PartitionNames
                              ELSE {DEFAULT_PARTITION})
    /\ stage_files \in StageFilesOptions
    /\ prime_files \in PrimeFilesOptions
    /\ pull_commands \in PullCommandsOptions
    /\ build_commands \in BuildCommandsOptions
    /\ source_handler \in BOOLEAN
    /\ env \in EnvOptions
    /\ scripts = NoFiles
    /\ ops = <<>>
    /\ stage_tree = [p \in PartitionNames |-> EmptyTree]
    /\ prime_tree = [p \in PartitionNames |-> EmptyTree]
    /\ backstage_tree = EmptyTree
    /\ export_migrations = <<>>
    /\ prime_fileset = <<>>
    /\ returned = [s \in {} |-> NoContents]
    /\ b_outcome = NoError

\* The part a scriptlet is run for, no built-in run yet.
IdleBuiltin ==
    /\ b_next = 1
    /\ partitions = None
    /\ default_partition = DEFAULT_PARTITION
    /\ stage_files = <<>>
    /\ prime_files = <<>>
    /\ pull_commands \in (IF scriptlet = "default" /\ step = "PULL"
                          THEN PullCommandsOptions ELSE {<<>>})
    /\ build_commands = << <<"make">> >>
    /\ source_handler = FALSE
    /\ env \in (IF scriptlet = "keys" THEN EnvOptions ELSE {<<"export A=1", "\n">>})
    /\ scripts = NoFiles
    /\ ops = <<>>
    /\ stage_tree = [p \in PartitionNames |-> EmptyTree]
    /\ prime_tree = [p \in PartitionNames |-> EmptyTree]
    /\ backstage_tree = EmptyTree
    /\ export_migrations = <<>>
    /\ prime_fileset = <<>>
    /\ returned = [s \in {} |-> NoContents]
    /\ b_outcome = NoError

\* The state of the scriptlet side while the built-ins are modelled.
IdleCtl ==
    /\ pc = "init"
    /\ scriptlet = "default"
    /\ step = "BUILD"
    /\ step_info_step = "BUILD"
    /\ tempdir = "none"
    /\ ctl_socket = "none"
    /\ conn_state = [c \in Conns |-> "unconnected"]
    /\ inbox = [c \in Conns |-> <<>>]
    /\ replies = [c \in Conns |-> <<>>]
    /\ nreq = 0
    /\ project_vars = [n \in DeclaredVars |-> <<>>]
    /\ calls = <<>>
    /\ child = "none"
    /\ outcome = NoError
    /\ hframe = [state |-> "idle", conn |-> 0, msg |-> Eof]
    /\ events = <<>>
    /\ handled = <<>>

\* run_builtin: the handler chosen for StepInfo.step.
Handler(s) ==
    IF s = "PULL" THEN "_builtin_pull"
    ELSE IF s = "OVERLAY" THEN "_builtin_overlay"
    ELSE IF s = "BUILD" THEN "_builtin_build"
    ELSE IF s = "STAGE" THEN "_builtin_stage"
    ELSE IF s = "PRIME" THEN "_builtin_prime"
    ELSE "RuntimeError"

\* A StepHandler is made for the next step of the part and run_builtin is called.
Runs(handler) ==
    /\ b_next \in DOMAIN StepOrder
    /\ b_outcome = NoError
    /\ Handler(StepOrder[b_next]) = handler

Return(s, contents) ==
    /\ returned' = SetItem(returned, s, contents)
    /\ b_next' = b_next + 1
    /\ UNCHANGED b_outcome

Raise(exc) ==
    /\ b_outcome' = exc
    /\ UNCHANGED <<returned, b_next>>

\* _builtin_pull
BuiltinPull ==
    /\ UNCHANGED <<ctl_vars, part_vars, details_vars>>
    /\ Runs("_builtin_pull")
    /\ \E src_ok \in BOOLEAN : \E result \in ProcessResults :
          LET r == BuiltinPullResult(src_ok, result)
          IN /\ Leaves(r)
             /\ IF r.exc = NoError THEN Return("PULL", r.contents)
                ELSE Raise(r.exc)

\* _builtin_overlay
BuiltinOverlay ==
    /\ UNCHANGED <<ctl_vars, part_vars, details_vars>>
    /\ Runs("_builtin_overlay")
    /\ Leaves(BuiltinOverlayResult)
    /\ Return("OVERLAY", BuiltinOverlayResult.contents)

\* _builtin_build
BuiltinBuild ==
    /\ UNCHANGED <<ctl_vars, part_vars, details_vars>>
    /\ Runs("_builtin_build")
    /\ \E result \in ProcessResults :
          LET r == BuiltinBuildResult(result)
          IN /\ Leaves(r)
             /\ IF r.exc = NoError THEN Return("BUILD", r.contents)
                ELSE Raise(r.exc)

\* _builtin_stage
BuiltinStage ==
    /\ UNCHANGED <<ctl_vars, part_vars, details_vars>>
    /\ Runs("_builtin_stage")
    /\ Leaves(BuiltinStageEffect)
    /\ Return("STAGE", BuiltinStageEffect.contents)

\* _builtin_prime
BuiltinPrime ==
    /\ UNCHANGED <<ctl_vars, part_vars, details_vars>>
    /\ Runs("_builtin_prime")
    /\ Leaves(BuiltinPrimeEffect)
    /\ Return("PRIME", BuiltinPrimeEffect.contents)

\* ------------------------------------------------- errors of a failed process

\* The lines a failing process writes to its stderr: lines of the shell trace
\* (`set -x` writes each command after "+") and lines of the commands themselves.
StderrLineOptions == { <<"+", " make">>, <<"+", " cd src">>, <<"make: *** Error 1">> }

\* No process has failed.
IdleDetails == captured = None /\ error = NoError

\* A process is run with its stderr captured (empty so far), or not captured.
InitDetails == captured \in {None, <<>>} /\ error = NoError

\* The process writes a line to its stderr.
WriteStderr(line) ==
    /\ error = NoError
    /\ captured # None
    /\ Len(StderrLines(captured)) < MaxStderrLines
    /\ captured' = captured \o line \o <<"\n">>
    /\ UNCHANGED <<ctl_vars, builtin_vars, error>>

\* _builtin_build: `raise errors.PluginBuildError(..., stderr=...)`
RaisePluginBuildError ==
    /\ error = NoError
    /\ error' = PluginBuildError(PartName, PluginName, captured)
    /\ UNCHANGED <<ctl_vars, builtin_vars, captured>>

\* run_scriptlet: `raise errors.ScriptletRunError(..., stderr=...)`
RaiseScriptletRunError ==
    /\ error = NoError
    /\ error' = ScriptletRunError(PartName, ScriptletName, 1, captured)
    /\ UNCHANGED <<ctl_vars, builtin_vars, captured>>

\* -------------------------------------------------------- specifications

Init == InitCtl /\ IdleBuiltin /\ IdleDetails

Next ==
    \/ RunScriptletEnter
    \/ WriteEnvironment
    \/ StartScript
    \/ \E c \in Conns : \E datas \in RequestSeqs(scriptlet) : ClientConnect(c, datas)
    \/ \E code \in ExitCodes : ChildExit(code)
    \/ \E c \in Conns : Accept(c)
    \/ \E c \in Conns : ReadEof(c)
    \/ \E c \in Conns : ReadRequest(c)
    \/ \E c \in Conns : ReadDefault(c)
    \/ BuiltinReturns
    \/ RunReturns

Spec == Init /\ [][Next]_vars

InitB == InitBuiltin /\ IdleCtl /\ IdleDetails

NextB ==
    \/ BuiltinPull
    \/ BuiltinOverlay
    \/ BuiltinBuild
    \/ BuiltinStage
    \/ BuiltinPrime

SpecBuiltin == InitB /\ [][NextB]_vars

InitD == InitDetails /\ IdleCtl /\ IdleBuiltin

NextD ==
    \/ \E line \in StderrLineOptions : WriteStderr(line)
    \/ RaisePluginBuildError
    \/ RaiseScriptletRunError

SpecDetails == InitD /\ [][NextD]_vars

\* =================================================================== claims

\* The requests received on connection c before the i-th request handled.
EarlierOn(c, i) == {j \in 1..(i-1) : handled[j].conn = c}

\* The i-th request handled got no reply: its connection carries only the replies
\* to the requests received on it before.
Unanswered(i) ==
    Len(replies[handled[i].conn]) = Cardinality(EarlierOn(handled[i].conn, i))

\* The i-th request handled ended the run: it is the last one handled, and
\* run_scriptlet ended with the exception its handler raised.
Aborted(i) ==
    /\ i = Len(handled)
    /\ handled[i].kind = "raise"
    /\ pc = "done"
    /\ outcome = handled[i].exc

\* C1: when the built-in re-entered by a `default` request raises a plugin-build
\* error, no reply (OK or ERR) is sent on the connection, the error leaves the
\* read callback, and run_scriptlet ends with that same plugin-build error.
C1_BuildErrorOfDefaultPropagates ==
    \A i \in DOMAIN handled :
        (IsDefaultCall(handled[i].msg) /\ handled[i].exc.cls = "PluginBuildError")
        => /\ Aborted(i)
           /\ Unanswered(i)
           /\ handled[i].text = <<>>
           /\ \E stderr \in ProcessStderrs :
                 outcome = PluginBuildError(PartName, PluginName, stderr)
           /\ events[Len(events)] = <<"raise", handled[i].conn>>

C1_Witness ==
    /\ pc = "done"
    /\ \E i \in DOMAIN handled :
          IsDefaultCall(handled[i].msg) /\ handled[i].exc.cls = "PluginBuildError"

\* C2: a `default` request runs the built-in synchronously inside the request
\* handler: while the built-in runs the server receives and answers nothing, the
\* OK reply follows the return of the built-in, and nothing is received between
\* the start of the built-in and that reply.
C2_DefaultIsSynchronous ==
    /\ hframe.state = "builtin"
       => /\ events # <<>>
          /\ events[Len(events)] = <<"builtin_start", hframe.conn>>
    /\ \A i \in DOMAIN events :
          events[i][1] = "builtin_start"
          => /\ (i + 1 \in DOMAIN events
                 => events[i+1] \in {<<"builtin_return", events[i][2]>>,
                                     <<"builtin_raise", events[i][2]>>})
             /\ (i + 2 \in DOMAIN events /\ events[i+1][1] = "builtin_return"
                 => events[i+2] = <<"send", events[i][2]>>)
    /\ \A i \in DOMAIN handled :
          (IsDefaultCall(handled[i].msg) /\ handled[i].text = OkReply(<<>>))
          => \E j \in DOMAIN events :
                /\ j > 2 /\ events[j] = <<"send", handled[i].conn>>
                /\ events[j-1] = <<"builtin_return", handled[i].conn>>
                /\ events[j-2] = <<"builtin_start", handled[i].conn>>

\* A `default` request on the second connection was answered OK, and only then was
\* the request read that had been sent earlier on the first connection: it waited
\* while the built-in ran.
C2_Witness ==
    \E i, j \in DOMAIN handled :
        /\ i < j
        /\ IsDefaultCall(handled[i].msg) /\ handled[i].text = OkReply(<<>>)
        /\ handled[i].conn = 2 /\ handled[j].conn = 1

\* The argument of a `set` request read as K=V: K up to the first "=", V after it.
FirstEq(arg) == CHOOSE j \in DOMAIN arg : arg[j] = "=" /\ \A k \in 1..(j-1) : arg[k] # "="
KeyOf(arg) == SubSeq(arg, 1, FirstEq(arg) - 1)
ValueOf(arg) == SubSeq(arg, FirstEq(arg) + 1, Len(arg))

IsSetKV(data) ==
    /\ data.enc = "utf8" /\ data.json = "object" /\ data.has_function /\ data.has_args
    /\ data.function = "set" /\ Len(data.args) = 1 /\ "=" \in Range(data.args[1])

IsGetOf(data, name) ==
    /\ data.enc = "utf8" /\ data.json = "object" /\ data.has_function /\ data.has_args
    /\ data.function = "get" /\ data.args = <<name>>

\* The collaborator (StepInfo) refused the call: its error came back as ERR.
Refused(h) == h.exc.cls = "InvalidControlAPICall"

\* C3 (as claimed): for every name K and value V, `set K=V` is answered "OK\n"
\* with set_project_var(K, V) called with exactly K and V, and a `get K` that
\* follows is answered "OK V\n" (StepInfo accepting the calls).
C3_SetThenGetReadsBack ==
    \A i \in DOMAIN handled :
        (IsSetKV(handled[i].msg) /\ ~Refused(handled[i]))
        => LET K == KeyOf(handled[i].msg.args[1])
               V == ValueOf(handled[i].msg.args[1])
           IN /\ handled[i].kind = "reply"
              /\ handled[i].text = <<"OK", "\n">>
              /\ handled[i].made = << <<K, V>> >>
              /\ (i + 1 \in DOMAIN handled /\ IsGetOf(handled[i+1].msg, K)
                    /\ ~Refused(handled[i+1]))
                 => handled[i+1].text = <<"OK", " ">> \o V \o <<"\n">>

\* C4 (as claimed): on every exit path of run_scriptlet the control socket has
\* been closed and the temporary directory removed.
C4_SocketClosedAndTempdirRemovedOnExit ==
    pc = "done" => (ctl_socket = "closed" /\ tempdir = "removed")

\* The requests C9 is about: text that is not JSON, or an object without the
\* `function` or the `args` key.
IsMalformed(data) ==
    /\ data.enc = "utf8"
    /\ (data.json = "invalid" \/ ~data.has_function \/ ~data.has_args)

\* C9: a request that is not valid JSON, or lacks `function` or `args`, is fatal:
\* the handler raises a RuntimeError naming the scriptlet, nothing is replied, no
\* command is executed, and the scriptlet run ends with that error.
C9_MalformedRequestIsFatal ==
    \A i \in DOMAIN handled :
        IsMalformed(handled[i].msg)
        => /\ Aborted(i)
           /\ handled[i].exc.cls = "RuntimeError"
           /\ ScriptletName \in Range(handled[i].exc.brief)
           /\ Unanswered(i)
           /\ handled[i].made = <<>>
           /\ Len(events) >= 2
           /\ events[Len(events)] = <<"raise", handled[i].conn>>
           /\ events[Len(events) - 1] = <<"recv", handled[i].conn>>

C9_Witness ==
    /\ pc = "done"
    /\ \E i \in DOMAIN handled :
          /\ handled[i].msg = MissingArgs
          /\ \E j \in 1..(i-1) : handled[j].kind = "reply"

\* The requests C10 is about: bytes that are not UTF-8, or text that is not JSON.
IsUndecodable(data) ==
    data.enc = "bad_utf8" \/ (data.enc = "utf8" /\ data.json = "invalid")

\* C10 (as claimed): a request that cannot be decoded is answered with an ERR
\* reply and the scriptlet run continues.
C10_DecodeFailureAnsweredErr ==
    \A i \in DOMAIN handled :
        IsUndecodable(handled[i].msg)
        => /\ handled[i].kind = "reply"
           /\ Len(handled[i].text) > 0 /\ handled[i].text[1] = "ERR"
           /\ ~Aborted(i)

\* C10 (amended): a request that cannot be decoded is not recovered from: nothing
\* is replied, the UnicodeDecodeError (bytes that are not UTF-8) or RuntimeError
\* (text that is not JSON) leaves the read callback, and the scriptlet run ends
\* with it.
C10_DecodeFailureIsFatal ==
    \A i \in DOMAIN handled :
        IsUndecodable(handled[i].msg)
        => /\ Aborted(i)
           /\ Unanswered(i)
           /\ handled[i].text = <<>>
           /\ outcome.cls = (IF handled[i].msg.enc = "bad_utf8"
                             THEN "UnicodeDecodeError" ELSE "RuntimeError")
           /\ ~IsPartsError(outcome)

C10_Witness ==
    /\ pc = "done"
    /\ \E i \in DOMAIN handled : handled[i].msg = BadUtf8
    /\ outcome.cls = "UnicodeDecodeError"

\* ------------------------------------------------------ built-in contents

\* The partitions requested of the handler: None and the empty list request the
\* default partition alone.
Requested ==
    IF partitions = None \/ Len(partitions) = 0 THEN {DEFAULT_PARTITION}
    ELSE Range(partitions)

HasRun(s) == s \in DOMAIN returned

\* C5: for every step and every `partitions` argument, the keys of the
\* StepContents that run_builtin returned are exactly the requested partitions,
\* the default partition name alone for None and for the empty list.
C5_KeysAreRequestedPartitions ==
    \A s \in DOMAIN returned : DOMAIN returned[s] = Requested

\* C6: in the contents STAGE returned, every entry of a partition other than the
\* default one has empty backstage sets, and the export dir was migrated to the
\* backstage dir only in the turn of the default partition.
C6_BackstageOnlyInDefaultPartition ==
    HasRun("STAGE") =>
        /\ \A k \in DOMAIN returned["STAGE"] :
              k # default_partition =>
                  /\ returned["STAGE"][k].backstage_files = {}
                  /\ returned["STAGE"][k].backstage_dirs = {}
        /\ \A i \in DOMAIN export_migrations :
              export_migrations[i] = default_partition

\* STAGE ran over the default partition and another one: the default entry
\* carries the backstage sets, the export dir is in the backstage dir.
C6_Witness ==
    /\ HasRun("STAGE")
    /\ Truthy(partitions)
    /\ \E k \in DOMAIN returned["STAGE"] :
          /\ k # default_partition
          /\ k \in Range(partitions)
          /\ returned["STAGE"][k].files # {}
    /\ returned["STAGE"][default_partition].backstage_files = ExportPaths
    /\ export_migrations = <<default_partition>>
    /\ DOMAIN backstage_tree = ExportPaths

\* C7: after STAGE, in single-tree and in partitioned mode, a regular .pc file in
\* the stage dir of any partition has no reference to the install dir it came
\* from; symlinks and files without the .pc suffix are as they were installed.
C7_StagedPcFilesDoNotNameInstallDir ==
    HasRun("STAGE") =>
        \A k \in PartitionNames : \A p \in DOMAIN stage_tree[k] :
            IF stage_tree[k][p].kind # "symlink" /\ p[3] = ".pc"
            THEN InstallDir(k) \notin stage_tree[k][p].refs
            ELSE stage_tree[k][p] = InstallTree(k)[p]

\* `prime_files` is empty, is exactly ["*"], or has only excludes.
PrimeDefaultsToStage ==
    \/ prime_files = <<>>
    \/ prime_files = <<Include("", Star)>>
    \/ \A i \in DOMAIN prime_files : prime_files[i].excl

\* `prime_files` has an include other than "*".
PrimeHasOwnInclude ==
    \E i \in DOMAIN prime_files :
        ~prime_files[i].excl /\ prime_files[i].path # Star

\* An exclude of `prime_files` removes path p in partition k.
PrimeExcluded(k, p) ==
    \E i \in DOMAIN prime_files :
        /\ prime_files[i].excl
        /\ Truthy(partitions) => Routed(prime_files[i], default_partition) = k
        /\ Matches(prime_files[i].path, p)

\* C8: with `prime_files` empty, ["*"] or only excludes, PRIME resolves the
\* stage fileset too, and per partition resolves and migrates the files and
\* directories that STAGE did, less what the prime excludes remove; with an
\* include other than "*", PRIME resolves `prime_files` alone.
C8_PrimeDefaultsToStageFileset ==
    HasRun("PRIME") =>
        /\ PrimeDefaultsToStage =>
              /\ \A i \in DOMAIN stage_files : stage_files[i] \in Range(prime_fileset)
              /\ DOMAIN returned["PRIME"] = DOMAIN returned["STAGE"]
              /\ \A k \in DOMAIN returned["PRIME"] :
                    LET kept == {p \in returned["STAGE"][k].files :
                                    ~PrimeExcluded(k, p)}
                    IN /\ returned["PRIME"][k].files = kept
                       /\ returned["PRIME"][k].dirs = {Parent(p) : p \in kept}
                       /\ DOMAIN prime_tree[k] = kept
                       /\ \A p \in kept : prime_tree[k][p] = stage_tree[k][p]
        /\ PrimeHasOwnInclude =>
              /\ prime_fileset = prime_files
              /\ \A k \in DOMAIN returned["PRIME"] :
                    \A p \in returned["PRIME"][k].files :
                        \E i \in DOMAIN prime_files :
                            /\ ~prime_files[i].excl
                            /\ Matches(prime_files[i].path, p)

\* PRIME ran with no `prime_files` of its own include over a stage fileset that
\* selects files in two partitions, and primed what was staged in both.
C8_Witness ==
    /\ HasRun("PRIME")
    /\ PrimeDefaultsToStage
    /\ prime_files # <<>>
    /\ Len(Includes(stage_files)) > 1
    /\ \E k \in DOMAIN returned["PRIME"] :
          /\ k # default_partition
          /\ returned["PRIME"][k].files # {}
          /\ returned["PRIME"][k].files = returned["STAGE"][k].files
    /\ \E k \in DOMAIN returned["PRIME"] :
          /\ returned["PRIME"][k].files # {}
          /\ returned["PRIME"][k].files # returned["STAGE"][k].files

\* ------------------------------------------------ errors of the built-ins

\* C11: a failed pull or build script of a built-in re-entered by `default` is not
\* answered: the plugin pull error or plugin build error leaves the read callback
\* and ends the run; no ERR reply is sent after which the scriptlet goes on.
C11_BuiltinProcessErrorNotRecovered ==
    \A i \in DOMAIN handled :
        (IsDefaultCall(handled[i].msg)
         /\ handled[i].exc.cls \in {"PluginPullError", "PluginBuildError"})
        => /\ handled[i].kind = "raise"
           /\ Unanswered(i)
           /\ Aborted(i)

\* ------------------------------------------------ misused control calls

\* Whether text has sub as a contiguous part.
Contains(text, sub) ==
    \E i \in 0..(Len(text) - Len(sub)) : SubSeq(text, i + 1, i + Len(sub)) = sub

\* A well-formed request for the function name.
IsCallOf(data, name) ==
    /\ data.enc = "utf8" /\ data.json = "object"
    /\ data.has_function /\ data.has_args
    /\ data.function = name

\* The requests handled so far that were `default` without arguments.
BareDefaults == {i \in DOMAIN handled :
                    IsCallOf(handled[i].msg, "default") /\ Len(handled[i].msg.args) = 0}

\* The entries of the operation log that are a run of the script at path.
RunsOf(path) == {n \in DOMAIN ops : ops[n].op = "run" /\ ops[n].path = path}

\* The i-th request handled was answered ERR with the message in its text.
AnsweredErr(i, message) ==
    /\ handled[i].kind = "reply"
    /\ Len(replies[handled[i].conn]) >= Cardinality(EarlierOn(handled[i].conn, i)) + 1
    /\ replies[handled[i].conn][Cardinality(EarlierOn(handled[i].conn, i)) + 1]
          = handled[i].text
    /\ Head(handled[i].text) = "ERR"
    /\ Contains(handled[i].text, message)

\* C12: a `default` request with one or more arguments is answered ERR with
\* "invalid arguments to command 'default'", and the built-in of the step is not
\* executed for it: the build script is written and run once per `default`
\* without arguments and never otherwise, and nothing is staged before one.
C12_DefaultWithArgumentsRefused ==
    /\ \A i \in DOMAIN handled :
          (IsCallOf(handled[i].msg, "default") /\ Len(handled[i].msg.args) > 0)
          => AnsweredErr(i, <<"invalid arguments to command ", "'default'">>)
    /\ scriptlet = "default_args" =>
          /\ Cardinality(RunsOf(BuildScript))
                = (IF step = "BUILD" THEN Cardinality(BareDefaults) ELSE 0)
          /\ BuildScript \in DOMAIN scripts => BareDefaults # {}
          /\ BareDefaults = {} =>
                /\ stage_tree = [p \in PartitionNames |-> EmptyTree]
                /\ export_migrations = <<>>

\* A `default` with an argument was refused in a staging scriptlet, and the
\* `default` sent after it staged the part's files.
C12_Witness ==
    /\ step = "STAGE"
    /\ Len(handled) = 2
    /\ IsCallOf(handled[1].msg, "default") /\ Len(handled[1].msg.args) > 0
    /\ Head(handled[1].text) = "ERR"
    /\ 2 \in BareDefaults
    /\ stage_tree # [p \in PartitionNames |-> EmptyTree]

\* A `set` request that is well formed: one argument, with one "=".
IsProperSet(data) ==
    /\ IsCallOf(data, "set")
    /\ Len(data.args) = 1
    /\ Len(Split(data.args[1], "=")) = 2

\* C13: a misused `set` leaves the project variables alone.  With no argument or
\* more than one it is answered ERR with "invalid arguments to command 'set'";
\* with one argument without "=" it is answered ERR with "invalid arguments to
\* command 'set' (want key=value)"; set_project_var is not called for it: every
\* call of set_project_var made so far belongs to a well-formed `set`, and the
\* variables keep their initial values until one is handled.
C13_MisusedSetLeavesVariables ==
    /\ \A i \in DOMAIN handled :
          LET data == handled[i].msg IN
          /\ (IsCallOf(data, "set") /\ Len(data.args) # 1)
             => /\ AnsweredErr(i, <<"invalid arguments to command ", "'set'", ".">>)
                /\ handled[i].made = <<>>
          /\ (IsCallOf(data, "set") /\ Len(data.args) = 1
                 /\ "=" \notin Range(data.args[1]))
             => /\ AnsweredErr(i, <<"invalid arguments to command ", "'set'",
                                    " (want key=value)">>)
                /\ handled[i].made = <<>>
    /\ Len(calls) = Cardinality({i \in DOMAIN handled : IsProperSet(handled[i].msg)})
    /\ calls = <<>> => project_vars = [n \in DeclaredVars |-> <<>>]

\* A `set` whose argument has no "=" was answered ERR, and the `get` after it
\* reads the initial value.
C13_Witness ==
    /\ Len(handled) = 2
    /\ IsCallOf(handled[1].msg, "set") /\ handled[1].msg.args = << <<"k">> >>
    /\ handled[1].kind = "reply" /\ Head(handled[1].text) = "ERR"
    /\ handled[2].msg = GetK
    /\ handled[2].text = OkReply(<<>>)

\* A well-formed request that misuses the control API in a recoverable way: an
\* unknown command name, or a `get` without exactly one argument.
IsRecoverableMisuse(data) ==
    \/ IsCallOf(data, "get") /\ Len(data.args) # 1
    \/ /\ data.enc = "utf8" /\ data.json = "object"
       /\ data.has_function /\ data.has_args
       /\ data.function \notin {"default", "set", "get"}

\* The server is between two callbacks of a run that goes on.
Serving == pc = "pump" /\ child = "running" /\ hframe.state = "idle"

\* The handling of a recoverable misuse: the ERR reply is sent on its connection,
\* every connection stays as it was (open and registered), and the run goes on.
MisuseAnswered ==
    (handled' # handled /\ IsRecoverableMisuse(handled'[Len(handled')].msg))
    => LET h == handled'[Len(handled')] IN
       /\ h.kind = "reply"
       /\ Head(h.text) = "ERR"
       /\ replies' = [replies EXCEPT ![h.conn] = Append(@, h.text)]
       /\ conn_state' = conn_state
       /\ conn_state'[h.conn] = "registered"
       /\ pc' = "pump" /\ outcome' = NoError
       /\ ctl_socket' = "open" /\ tempdir' = tempdir
       /\ child' = child

\* After a recoverable misuse the requests that arrive are still served: one that
\* waits on a registered connection can be read, and a well-formed `get` handled
\* after the misuse, on the same or another connection, is answered OK.
StillServing ==
    \A i \in DOMAIN handled :
        IsRecoverableMisuse(handled[i].msg)
        => /\ \A c \in Conns :
                 (Serving /\ conn_state[c] = "registered" /\ inbox[c] # <<>>
                     /\ Head(inbox[c]) # Eof)
                 => ENABLED (ReadRequest(c) \/ ReadDefault(c))
           /\ \A j \in DOMAIN handled :
                 (j > i /\ handled[j].msg = GetK)
                 => /\ handled[j].kind = "reply"
                    /\ Head(handled[j].text) = "OK"
                    /\ ~Unanswered(j)

\* C14: an unknown command, or a `get` with a number of arguments other than one,
\* is answered ERR; its connection stays open and registered and the run is not
\* aborted; the requests that come later, on the same or another connection, are
\* still handled and answered.
C14_MisuseIsRecoverable == [][MisuseAnswered]_vars /\ []StillServing

\* An unknown command was answered ERR on one connection, and a `get` sent on
\* another connection afterwards was answered OK.
C14_Witness ==
    /\ Len(handled) = 2
    /\ handled[1].msg.function = "bogus" /\ Head(handled[1].text) = "ERR"
    /\ handled[2].msg = GetK /\ Head(handled[2].text) = "OK"
    /\ handled[2].conn # handled[1].conn
    /\ Len(replies[handled[2].conn]) = 1

\* A `get` without arguments was answered ERR, and a `get` sent on the same
\* connection afterwards was answered OK.
C14_WitnessSameConnection ==
    /\ Len(handled) = 2
    /\ handled[1].msg = Call("get", <<>>) /\ Head(handled[1].text) = "ERR"
    /\ handled[2].msg = GetK /\ Head(handled[2].text) = "OK"
    /\ handled[2].conn = handled[1].conn

\* ------------------------------------------------ the PULL and BUILD built-ins

\* The entries of the operation log, in order, that concern the file at path.
OpsOn(path) == {n \in DOMAIN ops : ops[n].path = path}

\* The position of the one operation `op` on the file at path (0 if there is none).
OpAt(op, path) ==
    IF \E n \in OpsOn(path) : ops[n].op = op
    THEN CHOOSE n \in OpsOn(path) : ops[n].op = op
    ELSE 0

\* run_builtin was called for step s and has ended, by return or by exception.
Ended(s) ==
    \/ s \in DOMAIN returned
    \/ b_outcome # NoError /\ b_next \in DOMAIN StepOrder /\ StepOrder[b_next] = s

\* The script at path was written, made executable, run and has exited, in that
\* order, each once.
RanOnce(path) ==
    /\ \A op \in {"write", "chmod", "run", "exit"} :
          Cardinality({n \in OpsOn(path) : ops[n].op = op}) = 1
    /\ OpAt("write", path) < OpAt("chmod", path)
    /\ OpAt("chmod", path) < OpAt("run", path)
    /\ OpAt("run", path) < OpAt("exit", path)

\* C16: the PULL built-in works in a fixed order.  The pull() of the source
\* handler, when one is attached, is the first thing done and has returned before
\* pull.sh is written or run; pull.sh is written and run exactly when the plugin
\* gave a non-empty list of pull commands (and it holds these commands); a
\* non-zero exit of the script ends run_builtin with the plugin pull error of
\* the part; in every other case an empty StepContents is returned.
C16_PullOrder ==
    Ended("PULL") =>
       /\ source_handler <=> (ops # <<>> /\ ops[1].op = "source_pull")
       /\ \A n \in DOMAIN ops : ops[n].op = "source_pull" => n = 1
       /\ b_outcome.cls = "PullError" => OpsOn(PullScript) = {}
       /\ OpsOn(PullScript) # {} <=>
             (pull_commands # <<>> /\ b_outcome.cls # "PullError")
       /\ OpsOn(PullScript) # {} =>
             /\ RanOnce(PullScript)
             /\ Contains(scripts[PullScript].text, EmitAll(pull_commands))
             /\ ops[OpAt("run", PullScript)].cwd = "<part_src_subdir>"
             /\ IF ops[OpAt("exit", PullScript)].arg # "0"
                THEN b_outcome = PluginPullError(PartName)
                ELSE "PULL" \in DOMAIN returned
       /\ "PULL" \in DOMAIN returned =>
             returned["PULL"] = [k \in {DEFAULT_PARTITION} |->
                                    StepPartitionContents({}, {})]
       /\ b_outcome.cls \in {"PullError", "PluginPullError"}
             => "PULL" \notin DOMAIN returned

\* The source was pulled, then pull.sh was run and exited with an error, which
\* ended run_builtin with the plugin pull error.
C16_Witness ==
    /\ source_handler
    /\ Len(ops) = 5
    /\ ops[1].op = "source_pull"
    /\ ops[5].op = "exit" /\ ops[5].path = PullScript /\ ops[5].arg = "1"
    /\ b_outcome = PluginPullError(PartName)

\* C17: the BUILD built-in writes environment.sh with exactly the caller's env
\* string and makes it 0o644 before build.sh is written or run; build.sh sources
\* that file ahead of the build commands and is run in the build directory; a
\* non-zero exit ends run_builtin with the plugin build error of the part and
\* plugin, carrying the stderr captured from the process; a zero exit returns an
\* empty StepContents.
C17_BuildOrder ==
    Ended("BUILD") =>
       /\ BuildEnvironmentScript \in DOMAIN scripts
       /\ scripts[BuildEnvironmentScript] = [text |-> env, mode |-> "0o644"]
       /\ OpAt("write", BuildEnvironmentScript) > 0
       /\ OpAt("write", BuildEnvironmentScript) < OpAt("chmod", BuildEnvironmentScript)
       /\ ops[OpAt("chmod", BuildEnvironmentScript)].arg = "0o644"
       /\ OpAt("chmod", BuildEnvironmentScript) < OpAt("write", BuildScript)
       /\ RanOnce(BuildScript)
       /\ ops[OpAt("run", BuildScript)].cwd = "<part_build_subdir>"
       /\ Contains(scripts[BuildScript].text,
                   Emit(<<"source ">> \o BuildEnvironmentScript)
                   \o Emit(<<"set -x">>) \o EmitAll(build_commands))
       /\ LET exit == ops[OpAt("exit", BuildScript)] IN
          IF exit.arg # "0"
          THEN /\ b_outcome = PluginBuildError(PartName, PluginName, exit.stderr)
               /\ b_outcome.stderr = exit.stderr
               /\ Contains(b_outcome.brief, <<PartName>>)
               /\ Contains(b_outcome.resolution, <<PluginName>>)
               /\ "BUILD" \notin DOMAIN returned
          ELSE /\ "BUILD" \in DOMAIN returned
               /\ returned["BUILD"] = [k \in {DEFAULT_PARTITION} |->
                                          StepPartitionContents({}, {})]

\* A build with a non-empty env and two build commands failed with stderr
\* captured, and run_builtin ended with the plugin build error.
C17_Witness ==
    /\ env # <<>>
    /\ Len(build_commands) = 2
    /\ b_outcome.cls = "PluginBuildError"
    /\ b_outcome.stderr # None
    /\ scripts[BuildEnvironmentScript].text = env

\* ------------------------------------------------------- the script runner

\* The lines of a script for the commands, sourcing the environment script at
\* env_script (None: no environment script).
ScriptLines(commands, env_script) ==
    << <<"#!/bin/bash">>, <<"set -euo pipefail">> >>
    \o (IF env_script = None THEN <<>> ELSE << <<"source ">> \o env_script >>)
    \o << <<"set -x">> >>
    \o commands

\* The script at path holds exactly the lines, each ended by a newline, has mode
\* 0o755, and was written, then made 0o755, then run.
WellFormedScript(path, lines) ==
    /\ Split(scripts[path].text, "\n") = Append(lines, <<>>)
    /\ scripts[path].mode = "0o755"
    /\ RanOnce(path) \/ (OpAt("exit", path) = 0 /\ OpAt("run", path) > 0)
    /\ OpAt("write", path) > 0
    /\ OpAt("write", path) < OpAt("chmod", path)
    /\ ops[OpAt("chmod", path)].arg = "0o755"
    /\ OpAt("chmod", path) < OpAt("run", path)

\* C18: the file the script runner writes is the line sequence `#!/bin/bash`,
\* `set -euo pipefail`, `source <env_script>` (only when an environment script is
\* given), `set -x`, then the commands in their order, one per line; it is made
\* 0o755 after it is written and before its process is started.
C18_ScriptFile ==
    /\ PullScript \in DOMAIN scripts
          => WellFormedScript(PullScript, ScriptLines(pull_commands, None))
    /\ BuildScript \in DOMAIN scripts
          => WellFormedScript(BuildScript,
                              ScriptLines(build_commands, BuildEnvironmentScript))

\* A pull script without environment script and a build script with one, of two
\* commands, have both been written and run.
C18_Witness ==
    /\ PullScript \in DOMAIN scripts
    /\ BuildScript \in DOMAIN scripts
    /\ Len(build_commands) = 2
    /\ OpAt("exit", BuildScript) > 0

\* A build script without commands has been written and run.
C18_WitnessNoCommands ==
    /\ BuildScript \in DOMAIN scripts
    /\ build_commands = <<>>

\* ------------------------------------------------------------ run_scriptlet

\* C19: when the child of the scriptlet has exited non-zero and no `default`
\* call raised a plugin build error, run_scriptlet ends
\* with the scriptlet-run error of the part and scriptlet, with the exit code of
\* the child and the stderr captured from it.  The script run holds the scriptlet
\* text as its one command, after sourcing the environment script; the environment
\* script is the line `export PARTS_CTL_SOCKET=<socket path>` followed by the
\* caller's env string.
C19_ScriptletRunError ==
    /\ (pc = "done" /\ child \notin {"none", "running", "exit0"}
           /\ \A i \in DOMAIN handled : handled[i].exc.cls # "PluginBuildError") =>
          LET exit == ops[OpAt("exit", ScriptletScript)]
              code == CHOOSE c \in ExitCodes : ExitStates[c + 1] = child
          IN /\ OpAt("exit", ScriptletScript) = Len(ops)
             /\ exit.arg = ToString(code)
             /\ outcome = ScriptletRunError(PartName, ScriptletName, code, exit.stderr)
             /\ outcome.cls = "ScriptletRunError"
             /\ outcome.stderr = exit.stderr
             /\ Contains(outcome.brief, Repr(PartName))
             /\ Contains(outcome.brief, Repr(ScriptletName))
             /\ Contains(outcome.brief, <<" failed with code ", ToString(code)>>)
    /\ ScriptletScript \in DOMAIN scripts =>
          /\ scripts[ScriptletScript].text
                = Emit(<<"#!/bin/bash">>) \o Emit(<<"set -euo pipefail">>)
                  \o Emit(<<"source ">> \o ScriptletEnvironmentScript)
                  \o Emit(<<"set -x">>) \o Emit(ScriptletText(scriptlet))
          /\ ops[OpAt("run", ScriptletScript)].cwd = "<work_dir>"
          /\ OpAt("chmod", ScriptletEnvironmentScript) < OpAt("write", ScriptletScript)
    /\ ScriptletEnvironmentScript \in DOMAIN scripts =>
          /\ Head(Split(scripts[ScriptletEnvironmentScript].text, "\n"))
                = <<"export PARTS_CTL_SOCKET=">> \o ctl_socket_path
          /\ scripts[ScriptletEnvironmentScript].text
                = Emit(<<"export PARTS_CTL_SOCKET=">> \o ctl_socket_path) \o env

\* A scriptlet run with a non-empty env ended with exit code 2 and stderr
\* captured, after a request of the scriptlet had been answered.
C19_Witness ==
    /\ pc = "done" /\ child = "exit2"
    /\ env # <<>>
    /\ outcome.cls = "ScriptletRunError"
    /\ outcome.stderr # None
    /\ handled # <<>>

\* ------------------------------------------------------ the details of an error

\* The last n elements of s (all of s if it has fewer).
LastOf(s, n) == IF Len(s) <= n THEN s ELSE SubSeq(s, Len(s) - n + 1, Len(s))

\* The lines of the captured stderr that begin with "+".
TraceLinesOf(text) ==
    LET Traced(line) == line # <<>> /\ Head(line) = "+"
    IN SelectSeq(Split(text, "\n"), Traced)

\* C15: the `details` of a plugin build error or scriptlet run error are the
\* last three lines of the captured stderr that begin with "+", each written as
\* "\n:: <line>", whatever else the stderr holds; they are None when no stderr
\* was captured.
C15_DetailsAreLastThreeTraceLines ==
    error # NoError =>
       /\ error.stderr = captured
       /\ IF captured = None THEN error.details = None
          ELSE error.details = WriteLines(LastOf(TraceLinesOf(captured), 3))

\* ------------------------------------------------------- requests and reads

\* The set_project_var calls the requests of the scriptlet ask for.
CallsAskedFor ==
    {<<KeyOf(d.args[1]), ValueOf(d.args[1])>> :
        d \in {r \in Requests(scriptlet) : IsSetKV(r)}}

\* What was read came from a request longer than RecvSize that was cut in the
\* middle of its JSON text (the first RecvSize bytes, or the bytes after them).
IsCutRequest(data) ==
    /\ data.enc = "utf8" /\ data.json = "invalid"
    /\ data.tail < data.size
    /\ data.size # ShortRequest

\* C20: a well-formed request of exactly RecvSize (1024) bytes is read in one
\* piece, executed and answered.  A well-formed request of one byte more is never
\* executed in part: either its JSON text does not fit in one read and the read
\* is rejected with nothing executed and nothing replied (the error ends the run),
\* or only white space is cut off and it is executed whole, once; no
\* set_project_var call is made but those the requests sent ask for, each with
\* the key and value sent.
C20_RequestsAtTheReadSize ==
    /\ \A i \in DOMAIN handled :
          LET h == handled[i] IN
          /\ (IsCallOf(h.msg, "get") /\ h.msg.size = RecvSize /\ h.msg.tail = 0)
             => /\ h.kind = "reply" /\ Head(h.text) = "OK"
                /\ ~Unanswered(i)
          /\ IsCutRequest(h.msg)
             => /\ h.kind = "raise" /\ h.exc.cls = "RuntimeError"
                /\ h.made = <<>> /\ h.text = <<>>
                /\ Unanswered(i) /\ Aborted(i)
          /\ (IsCallOf(h.msg, "set") /\ h.msg.size = RecvSize)
             => /\ h.kind = "reply"
                /\ Refused(h) \/ h.text = OkReply(<<>>)
                /\ h.made = << <<KeyOf(h.msg.args[1]), ValueOf(h.msg.args[1])>> >>
    /\ scriptlet = "chunk" =>
          /\ \A n \in DOMAIN calls : calls[n] \in CallsAskedFor
          /\ Len(calls) = Cardinality({i \in DOMAIN handled :
                                          IsCallOf(handled[i].msg, "set")})
          /\ project_vars[<<"k">>] \in {<<>>} \cup {call[2] : call \in CallsAskedFor}

\* A request of RecvSize bytes was answered, then one of a byte more was cut by
\* the read and rejected, ending the run with nothing set.
C20_Witness ==
    /\ Len(handled) = 2
    /\ handled[1].msg.size = RecvSize /\ handled[1].msg.json = "object"
    /\ Head(handled[1].text) = "OK"
    /\ IsCutRequest(handled[2].msg)
    /\ pc = "done" /\ calls = <<>>

\* A request of RecvSize + 1 bytes that ends in white space was executed whole,
\* and the byte left over was read together with the next request.
C20_WitnessWhitespace ==
    /\ Len(handled) = 2
    /\ IsCallOf(handled[1].msg, "set") /\ handled[1].msg.size = RecvSize
    /\ handled[1].msg.tail = 0 /\ Len(calls) = 1
    /\ IsCallOf(handled[2].msg, "get") /\ handled[2].msg.size = ShortRequest + 1
    /\ Head(handled[2].text) = "OK"

\* ------------------------------------------------------------- the replies

\* Every reply written so far, on any connection.
AllReplies == UNION {Range(replies[c]) : c \in Conns}

\* The text is one line: it ends with a newline and has no other.
IsOneLine(text) ==
    /\ text # <<>>
    /\ text[Len(text)] = "\n"
    /\ \A n \in 1..(Len(text) - 1) : text[n] # "\n"

\* C21: every reply written on a control connection is one line, ended by the
\* only newline in it, that is "OK\n", or begins with "OK " and carries a
\* value, or begins with "ERR " and carries a message.
C21_RepliesAreOneLine ==
    \A text \in AllReplies :
        /\ IsOneLine(text)
        /\ \/ text = <<"OK", "\n">>
           \/ Len(text) > 3 /\ SubSeq(text, 1, 2) = <<"OK", " ">>
           \/ Len(text) > 3 /\ SubSeq(text, 1, 2) = <<"ERR", " ">>

\* --------------------------------------------- errors of the collaborator

\* The messages with which StepInfo may refuse the well-formed `set` or `get`.
CollaboratorMessages(data) ==
    IF IsProperSet(data)
    THEN {r.exc.brief :
             r \in {o \in SetProjectVar(project_vars, KeyOf(data.args[1]),
                                        ValueOf(data.args[1])) : o.exc # NoError}}
    ELSE IF IsCallOf(data, "get") /\ Len(data.args) = 1
    THEN {r.exc.brief :
             r \in {o \in {GetProjectVar(project_vars, data.args[1])} :
                       o.exc # NoError}}
    ELSE {}

\* The i-th request handled was a well-formed `set` or `get` that StepInfo refused.
RefusedByCollaborator(i) ==
    /\ \/ IsProperSet(handled[i].msg)
       \/ IsCallOf(handled[i].msg, "get") /\ Len(handled[i].msg.args) = 1
    /\ handled[i].exc # NoError

\* The handling of a well-formed `set` or `get` that StepInfo refuses: ERR is
\* sent with the message of StepInfo, the connections stay as they were, and the
\* run goes on.
RefusalAnswered ==
    (handled' # handled /\ handled'[Len(handled')].exc # NoError
       /\ CollaboratorMessages(handled'[Len(handled')].msg) # {})
    => LET h == handled'[Len(handled')] IN
       /\ h.kind = "reply"
       /\ h.exc.cls = "InvalidControlAPICall"
       /\ SubSeq(h.text, 1, 2) = <<"ERR", " ">>
       /\ \E message \in CollaboratorMessages(h.msg) : Contains(h.text, message)
       /\ replies' = [replies EXCEPT ![h.conn] = Append(@, h.text)]
       /\ conn_state' = conn_state
       /\ pc' = "pump" /\ outcome' = NoError
       /\ ctl_socket' = "open" /\ tempdir' = tempdir
       /\ project_vars' = project_vars

\* After a refusal the requests handled are still answered: a `get k` with OK.
ServedAfterRefusal ==
    \A i \in DOMAIN handled :
        RefusedByCollaborator(i)
        => /\ handled[i].kind = "reply" /\ ~Unanswered(i)
           /\ \A j \in DOMAIN handled :
                 (j > i /\ handled[j].msg = GetK)
                 => /\ handled[j].kind = "reply"
                    /\ Head(handled[j].text) = "OK"
                    /\ ~Unanswered(j)

C22_WitnessSetRefused ==
    /\ Len(handled) = 2
    /\ handled[1].msg = Call("set", << <<"k", "=", "v">> >>)
    /\ Contains(handled[1].text, <<"' cannot be set">>)
    /\ handled[2].msg = GetK /\ handled[2].text = OkReply(<<>>)


\* ------------------------------------------------ routing between partitions

\* The entries of a fileset that are routed to partition P: those with the
\* prefix "(P)/" and, when P is the default partition, those with no prefix.  A
\* fileset without an include stands for "*" with no prefix.
IncludesRoutedTo(entries, P) ==
    IF Includes(entries) = <<>>
    THEN (IF P = default_partition THEN {Star} ELSE {})
    ELSE {entries[i].path : i \in {j \in DOMAIN entries :
             /\ ~entries[j].excl
             /\ \/ entries[j].part = P
                \/ entries[j].part = "" /\ P = default_partition}}

ExcludesRoutedTo(entries, P) ==
    {entries[i].path : i \in {j \in DOMAIN entries :
        /\ entries[j].excl
        /\ \/ entries[j].part = P
           \/ entries[j].part = "" /\ P = default_partition}}

\* The files of P's install dir that the entries routed to P select.
SelectedFor(entries, P) ==
    {p \in DOMAIN InstallTree(P) :
        /\ \E pattern \in IncludesRoutedTo(entries, P) : Matches(pattern, p)
        /\ ~\E pattern \in ExcludesRoutedTo(entries, P) : Matches(pattern, p)}

\* A path that only patterns bound to partition P select is in no other
\* partition Q: neither recorded for Q by the step nor written to Q's tree.
BoundPatternsStayIn(entries, recorded, tree) ==
    \A i \in DOMAIN entries : \A Q \in PartitionNames : \A p \in Paths :
        (/\ ~entries[i].excl
         /\ entries[i].part # ""
         /\ entries[i].part # Q
         /\ Matches(entries[i].path, p)
         /\ ~\E pattern \in IncludesRoutedTo(entries, Q) : Matches(pattern, p))
        => /\ p \notin DOMAIN tree[Q]
           /\ Q \in DOMAIN recorded => p \notin recorded[Q].files

\* C23: in partitioned STAGE and PRIME each partition P of the list is resolved
\* with P as the target against P's install dir, and migrated only into P's own
\* stage dir from P's install dir (STAGE) or into P's own prime dir from P's
\* stage dir (PRIME); a path selected by a pattern "(P)/X" is neither recorded
\* in nor written to another partition, and what is recorded for a partition is
\* what the entries routed to that partition select.
C23_PartitionsAreRoutedApart ==
    /\ (HasRun("STAGE") /\ Truthy(partitions)) =>
          /\ \A P \in PartitionNames :
                IF P \in Range(partitions)
                THEN /\ returned["STAGE"][P].files = SelectedFor(stage_files, P)
                     /\ DOMAIN stage_tree[P] = SelectedFor(stage_files, P)
                     /\ \A p \in DOMAIN stage_tree[P] :
                           stage_tree[P][p] \in
                               {InstallTree(P)[p], PkgconfigFixup(p, InstallTree(P)[p])}
                ELSE stage_tree[P] = EmptyTree
          /\ BoundPatternsStayIn(stage_files, returned["STAGE"], stage_tree)
    /\ (HasRun("PRIME") /\ Truthy(partitions)) =>
          /\ \A P \in PartitionNames :
                IF P \in Range(partitions)
                THEN /\ returned["PRIME"][P].files = SelectedFor(prime_fileset, P)
                     /\ DOMAIN prime_tree[P] =
                            SelectedFor(prime_fileset, P) \cap DOMAIN stage_tree[P]
                     /\ \A p \in DOMAIN prime_tree[P] :
                           prime_tree[P][p] = stage_tree[P][p]
                ELSE prime_tree[P] = EmptyTree
          /\ BoundPatternsStayIn(prime_fileset, returned["PRIME"], prime_tree)

\* STAGE and PRIME ran over two partitions with a stage fileset that binds one
\* pattern to the other partition: each partition holds its own selection, and
\* the file of the bound pattern is in that partition alone.
C23_Witness ==
    /\ HasRun("PRIME")
    /\ Truthy(partitions)
    /\ Range(partitions) = PartitionNames
    /\ \E i \in DOMAIN stage_files : \E P \in PartitionNames :
          /\ P # default_partition
          /\ stage_files[i] = Include(P, a_pc)
          /\ a_pc \in returned["STAGE"][P].files
          /\ a_pc \in DOMAIN stage_tree[P]
          /\ a_pc \in DOMAIN prime_tree[P]
          /\ a_pc \notin returned["STAGE"][default_partition].files
          /\ a_pc \notin DOMAIN stage_tree[default_partition]
          /\ returned["STAGE"][default_partition].files # {}
          /\ returned["PRIME"][default_partition].files # {}


\* ------------------------------------------------ `set` with "=" in the value

\* C24 (as claimed): a `set` request with exactly one argument that holds one
\* or more "=" never ends the scriptlet run: it is applied and answered "OK\n",
\* or it is answered with an ERR reply, and the request is not the one the run
\* ended on.
C24_SetWithSeparatorNeverAborts ==
    \A i \in DOMAIN handled :
        IsSetKV(handled[i].msg)
        => /\ handled[i].kind = "reply"
           /\ \/ handled[i].text = OkReply(<<>>) /\ Len(handled[i].made) = 1
              \/ /\ handled[i].exc # NoError
                 /\ handled[i].text = ErrReply(handled[i].exc)
           /\ ~Aborted(i)


\* ------------------------------------------------ `default` and run_builtin

\* C25 (as claimed): `default` executes the built-in that run_builtin executes,
\* the one for StepInfo.step of the handler whatever `step` run_scriptlet was
\* given: once a `default` request has been handled, the build script has been
\* run exactly when that step is BUILD, the pull script only when it is PULL,
\* the export dir migrated exactly when it is STAGE; and where run_builtin
\* raises RuntimeError (a step outside the five) the request does not succeed.
C25_DefaultAgreesWithRunBuiltin ==
    \A i \in DOMAIN handled :
        IsDefaultCall(handled[i].msg)
        => LET handler == Handler(step_info_step)
           IN /\ handler = "RuntimeError" => handled[i].exc # NoError
              /\ handler = "_builtin_build" <=> RunsOf(BuildScript) # {}
              /\ RunsOf(PullScript) # {} => handler = "_builtin_pull"
              /\ handler = "_builtin_stage" <=> export_migrations # <<>>

\* The two ways C25 fails, each on its own.
C25_PassedStepIsIgnored ==
    \A i \in DOMAIN handled :
        (IsDefaultCall(handled[i].msg) /\ step_info_step \in Steps)
        => (Handler(step_info_step) = "_builtin_build" <=> RunsOf(BuildScript) # {})

C25_InvalidStepFails ==
    \A i \in DOMAIN handled :
        (IsDefaultCall(handled[i].msg) /\ step \notin Steps)
        => handled[i].exc # NoError

\* Where the two agree: `step` is StepInfo.step and one of the five.
C25_AgreeOnTheHandlersStep ==
    \A i \in DOMAIN handled :
        (IsDefaultCall(handled[i].msg) /\ step = step_info_step /\ step \in Steps)
        => /\ Handler(step) = "_builtin_build" <=> RunsOf(BuildScript) # {}
           /\ RunsOf(PullScript) # {} => Handler(step) = "_builtin_pull"
           /\ Handler(step) = "_builtin_stage" <=> export_migrations # <<>>


\* ------------------------------------------------ the export dir in STAGE

\* C26 (as claimed): every STAGE that returned has migrated the part's export
\* dir to the backstage dir exactly once, whatever the `partitions` argument:
\* None, the empty list, a list with the default partition, a list without it,
\* a list that names it more than once.
C26_ExportMigratedExactlyOnce ==
    HasRun("STAGE") =>
        /\ Len(export_migrations) = 1
        /\ DOMAIN backstage_tree = ExportPaths

\* The two ways C26 fails, each on its own: the export dir is not migrated at
\* all, and it is migrated more than once.
C26_ExportMigratedAtLeastOnce ==
    HasRun("STAGE") => Len(export_migrations) >= 1

C26_ExportMigratedAtMostOnce ==
    HasRun("STAGE") => Len(export_migrations) <= 1

\* Where it holds: single-tree mode, and a list that names the default partition
\* once.
C26_OnceWhenDefaultListedOnce ==
    (/\ HasRun("STAGE")
     /\ \/ ~Truthy(partitions)
        \/ Cardinality({i \in DOMAIN partitions :
                           partitions[i] = default_partition}) = 1)
    => /\ Len(export_migrations) = 1
       /\ DOMAIN backstage_tree = ExportPaths

====
